---- MODULE Spec2Model ----
(***************************************************************************)
(* Model of the classroom / assignment / submission REST controllers and   *)
(* of the Mongoose schemas' save hooks they rely on.                       *)
(*                                                                         *)
(* The data store is three collections keyed by document id.  For each     *)
(* handler an operator <Handler>Result gives, from the current state and   *)
(* the request, the HTTP status the handler answers with and the           *)
(* collections as it leaves them; the handler's action installs them.  A   *)
(* request that fails therefore leaves the state as it is.                 *)
(*                                                                         *)
(* An optional value (a request field that may be absent, a schema path    *)
(* that may be unset) is a sequence of length at most one: <<>> is         *)
(* undefined, <<v>> is the value v.  The clock counts half days, so one    *)
(* day is DayLen ticks and the ceiling of a day difference is not trivial. *)
(***************************************************************************)
EXTENDS Integers, Sequences, FiniteSets, TLC

VARIABLES classrooms,   \* Classroom collection: id -> document
          assignments,  \* Assignment collection: id -> document
          submissions,  \* Submission collection: _id -> document
          ids,          \* documents ever created, per collection
          now,          \* the server clock (Date.now())
          pcs,          \* requests handled step by step, in order of arrival
          steps         \* state-changing requests and clock ticks so far

vars == <<classrooms, assignments, submissions, ids, now, pcs, steps>>

\* The data store and the clock.
store == <<classrooms, assignments, submissions, ids, now>>

----------------------------------------------------------------------------
\* Bounds of the model.

\* State-changing requests and clock ticks in one behaviour.
MaxSteps == 7
\* createSubmission requests handled step by step in one behaviour.
MaxRequests == 2
\* The number of requests that prepare the store before concurrent requests arrive.
MaxSetup == 4

\* Program constants (scaled where noted).

\* One day, in clock ticks (1000 * 60 * 60 * 24 ms in the source).
DayLen == 2
\* totalPoints used by createAssignment when the request gives none.
DefaultTotalPoints == 100
\* Upper limit of lateSubmissionPenalty in the Assignment schema.
MaxPenalty == 100
\* The length of a classroom's join code.
CodeLen == 6

Teachers == {"t1", "t2"}
Students == {"s1", "s2"}
Users == Teachers \cup Students

None == <<>>
Some(v) == <<v>>
IsSet(o) == o # <<>>
Val(o) == o[1]
\* JS truthiness of an optional string: undefined and "" are falsy.
TruthyStr(o) == o # None /\ o # Some("")
\* JS truthiness of an optional array: every array, also the empty one, is truthy.
TruthyArr(o) == o # None
\* JS truthiness of an optional number: undefined and 0 are falsy.
TruthyNum(o) == o # None /\ o # Some(0)
\* JS truthiness of an optional boolean.
TruthyBool(o) == o = Some(TRUE)

SubmissionStatuses == {"draft", "submitted", "graded", "returned"}
AssignmentStatuses == {"draft", "published", "closed"}

\* HTTP status codes of the responses.
OK == 200
CREATED == 201
VALIDATION_ERROR == 400
FORBIDDEN == 403
NOT_FOUND == 404
INTERNAL == 500

\* Mutant: the day count drops the started day.
CeilTruncates(a, b) == a \div b

Ceil(a, b) == (a + b - 1) \div b

Remove(seq, x) == SelectSeq(seq, LAMBDA y : y # x)
Range(seq) == {seq[i] : i \in DOMAIN seq}

Put(coll, id, doc) == [i \in DOMAIN coll \cup {id} |-> IF i = id THEN doc ELSE coll[i]]
Drop(coll, id) == [i \in DOMAIN coll \ {id} |-> coll[i]]

----------------------------------------------------------------------------
\* Submission schema.

\* Schema defaults of a new Submission given the paths createSubmission passes.
NewSubmission(a, student, classroom, content, attachments, status) ==
    [assignment |-> a, student |-> student, classroom |-> classroom,
     content |-> content, attachments |-> attachments, status |-> status,
     submittedAt |-> None, grade |-> None, feedback |-> None,
     gradedBy |-> None, gradedAt |-> None,
     isLate |-> FALSE, lateByDays |-> 0, penaltyApplied |-> 0]

\* Schema validation that runs on save: the status enum and grade >= 0.
SubmissionValid(doc) ==
    /\ doc.status \in SubmissionStatuses
    /\ (IsSet(doc.grade) => Val(doc.grade) >= 0)

\* The late computation of the save hook, for a submission stamped at t.
LateFields(doc, t) ==
    IF doc.assignment \in DOMAIN assignments
       /\ t > assignments[doc.assignment].dueDate
    THEN LET asg == assignments[doc.assignment]
             diffDays == Ceil(t - asg.dueDate, DayLen)
         IN [doc EXCEPT !.isLate = TRUE,
                        !.lateByDays = diffDays,
                        !.penaltyApplied =
                            IF asg.lateSubmissionPenalty > 0
                            THEN asg.lateSubmissionPenalty * diffDays
                            ELSE @]
    ELSE doc

\* Mutant: the hook stamps submittedAt on any change of status.
SubmitHookAnyStatus(doc, modified, t) ==
    IF "status" \in modified /\ doc.submittedAt = None
    THEN LateFields([doc EXCEPT !.submittedAt = Some(t)], t)
    ELSE doc

\* Mutant: the hook stamps submittedAt on every change of status into submitted.
SubmitHookRestamps(doc, modified, t) ==
    IF "status" \in modified /\ doc.status = "submitted"
    THEN LateFields([doc EXCEPT !.submittedAt = Some(t)], t)
    ELSE doc

\* First half of the save hook: stamp submittedAt on a change into submitted.
SubmitHook(doc, modified, t) ==
    IF "status" \in modified /\ doc.status = "submitted" /\ doc.submittedAt = None
    THEN LateFields([doc EXCEPT !.submittedAt = Some(t)], t)
    ELSE doc

\* Mutant: the hook stamps gradedAt on every save that changes the grade.
GradeHookRestamps(doc, modified, t) ==
    IF "grade" \in modified /\ IsSet(doc.grade)
    THEN [doc EXCEPT !.gradedAt = Some(t),
                     !.status = IF @ = "submitted" THEN "graded" ELSE @]
    ELSE doc

\* Second half of the save hook: stamp gradedAt when a grade is first saved.
GradeHook(doc, modified, t) ==
    IF "grade" \in modified /\ IsSet(doc.grade) /\ doc.gradedAt = None
    THEN [doc EXCEPT !.gradedAt = Some(t),
                     !.status = IF @ = "submitted" THEN "graded" ELSE @]
    ELSE doc

\* submissionSchema.pre('save'): `modified` are the paths isModified reports.
SubmissionPreSave(doc, modified, t) ==
    GradeHook(SubmitHook(doc, modified, t), modified, t)

\* isModified for a loaded document: the paths whose value differs from the stored one.
ModifiedPaths(old, new) ==
    {p \in {"content", "attachments", "status", "grade", "feedback", "gradedBy"} :
        old[p] # new[p]}

\* Mutant: the collection has no unique index.
UniqueIndexAbsent(a, student) == TRUE

\* The unique index on (assignment, student): may a document for this pair be inserted?
UniqueIndexAllows(a, student) ==
    \A i \in DOMAIN submissions :
        ~(submissions[i].assignment = a /\ submissions[i].student = student)

\* Mutant: the lookup never finds the pair's submission.
FindSubmissionMisses(a, student) == {}

\* Submission.findOne({assignment, student}): the ids that match.
FindSubmission(a, student) ==
    {i \in DOMAIN submissions :
        submissions[i].assignment = a /\ submissions[i].student = student}

----------------------------------------------------------------------------
\* Assignment schema.

AssignmentValid(doc) ==
    /\ doc.totalPoints >= 0
    /\ doc.lateSubmissionPenalty >= 0
    /\ doc.lateSubmissionPenalty <= MaxPenalty
    /\ doc.status \in AssignmentStatuses

\* assignmentSchema.pre('save').
AssignmentPreSave(doc, modified, t) ==
    IF "status" \in modified /\ doc.status = "published" /\ doc.publishedAt = None
    THEN [doc EXCEPT !.publishedAt = Some(t)]
    ELSE doc

----------------------------------------------------------------------------
Init ==
    /\ classrooms = <<>>
    /\ assignments = <<>>
    /\ submissions = <<>>
    /\ ids = [classroom |-> 0, assignment |-> 0, submission |-> 0]
    /\ now = 0
    /\ pcs = <<>>
    /\ steps = 0

----------------------------------------------------------------------------
\* controllers/submission.js

\* Mutant: the update path appends the request's attachments to the stored ones.
MergeSubmissionAppends(old, content, attachments, status) ==
    [old EXCEPT !.content = IF TruthyStr(content) THEN content ELSE @,
                !.attachments = IF TruthyArr(attachments) THEN @ \o Val(attachments) ELSE @,
                !.status = IF TruthyStr(status) THEN Val(status) ELSE @]

\* The existing document as the update path of createSubmission leaves it.
MergeSubmission(old, content, attachments, status) ==
    [old EXCEPT !.content = IF TruthyStr(content) THEN content ELSE @,
                !.attachments = IF TruthyArr(attachments) THEN Val(attachments) ELSE @,
                !.status = IF TruthyStr(status) THEN Val(status) ELSE @]

\* The document createSubmission hands to Submission.create.
FreshSubmission(a, u, classroom, content, attachments, status) ==
    NewSubmission(a, u, classroom, content,
                  IF TruthyArr(attachments) THEN Val(attachments) ELSE <<>>,
                  IF TruthyStr(status) THEN Val(status) ELSE "draft")

\* Mutant: everyone counts as enrolled.
IsEnrolledAnyone(classroom, u) == TRUE

\* Is the student enrolled in the classroom document?
IsEnrolled(classroom, u) == u \in Range(classroom.students)

\* Past the due date with late submissions off.
PastDue(asg, t) == ~asg.allowLateSubmission /\ t > asg.dueDate

\* Mutant: no status locks a submission.
LockedNever(doc) == FALSE

\* The status after which a student may no longer modify or delete.
Locked(doc) == doc.status = "graded" \/ doc.status = "returned"

\* findOne returns the first match.
First(found) == CHOOSE i \in found : \A j \in found : i <= j

\* POST /api/submissions handled without interleaving: the response status and
\* the collections the handler leaves.
CreateSubmissionResult(u, a, content, attachments, status) ==
    LET Fail(code) == [code |-> code, submissions |-> submissions,
                       assignments |-> assignments, ids |-> ids]
    IN
    IF a = None THEN Fail(VALIDATION_ERROR)
    ELSE IF Val(a) \notin DOMAIN assignments THEN Fail(NOT_FOUND)
    ELSE LET asg == assignments[Val(a)] IN
      IF asg.status # "published" THEN Fail(VALIDATION_ERROR)
      ELSE IF asg.classroom \notin DOMAIN classrooms THEN Fail(INTERNAL)
      ELSE IF ~IsEnrolled(classrooms[asg.classroom], u) THEN Fail(FORBIDDEN)
      ELSE IF PastDue(asg, now) THEN Fail(VALIDATION_ERROR)
      ELSE LET found == FindSubmission(Val(a), u) IN
        IF found # {}
        THEN LET sid == First(found)
                 old == submissions[sid]
                 new == MergeSubmission(old, content, attachments, status)
             IN IF Locked(old) THEN Fail(VALIDATION_ERROR)
                ELSE IF ~SubmissionValid(new) THEN Fail(INTERNAL)
                ELSE [code |-> OK,
                      submissions |-> [submissions EXCEPT ![sid] =
                          SubmissionPreSave(new, ModifiedPaths(old, new), now)],
                      assignments |-> assignments, ids |-> ids]
        ELSE LET doc == FreshSubmission(Val(a), u, asg.classroom,
                                        content, attachments, status)
                 sid == ids.submission + 1
             IN IF ~SubmissionValid(doc) \/ ~UniqueIndexAllows(Val(a), u)
                THEN Fail(INTERNAL)
                ELSE [code |-> CREATED,
                      submissions |-> Put(submissions, sid,
                          SubmissionPreSave(doc, {"status"}, now)),
                      assignments |-> [assignments EXCEPT
                          ![Val(a)].submissions = Append(@, sid)],
                      ids |-> [ids EXCEPT !.submission = sid]]

CreateSubmission(u, a, content, attachments, status) ==
    LET r == CreateSubmissionResult(u, a, content, attachments, status) IN
    /\ submissions' = r.submissions
    /\ assignments' = r.assignments
    /\ ids' = r.ids
    /\ UNCHANGED <<classrooms, now>>

\* Mutant: the range check has no upper bound.
GradeOutOfRangeNoMax(grade, asg) ==
    IsSet(grade) /\ Val(grade) < 0

\* The grade check of gradeSubmission: is the requested grade out of range?
GradeOutOfRange(grade, asg) ==
    IsSet(grade) /\ (Val(grade) < 0 \/ Val(grade) > asg.totalPoints)

\* Mutant: gradeSubmission leaves the status to the save hook.
GradedSubmissionKeepsStatus(old, u, grade, feedback) ==
    [old EXCEPT !.grade = grade, !.feedback = feedback, !.gradedBy = Some(u)]

\* The fields gradeSubmission assigns before saving.
GradedSubmission(old, u, grade, feedback) ==
    [old EXCEPT !.grade = grade, !.feedback = feedback,
                !.gradedBy = Some(u), !.status = "graded"]

\* Mutant: the handler stores the grade before it validates its range.
GradeSubmissionWritesFirst(u, sid, grade, feedback) ==
    IF /\ sid \in DOMAIN submissions
       /\ submissions[sid].assignment \in DOMAIN assignments
       /\ assignments[submissions[sid].assignment].teacher = u
       /\ GradeOutOfRange(grade, assignments[submissions[sid].assignment])
    THEN [code |-> VALIDATION_ERROR,
          submissions |-> [submissions EXCEPT ![sid].grade = grade]]
    ELSE [code |-> IF sid \in DOMAIN submissions THEN FORBIDDEN ELSE NOT_FOUND,
          submissions |-> submissions]

\* PUT /api/submissions/:id/grade
GradeSubmissionResult(u, sid, grade, feedback) ==
    LET Fail(code) == [code |-> code, submissions |-> submissions] IN
    IF sid \notin DOMAIN submissions THEN Fail(NOT_FOUND)
    ELSE LET old == submissions[sid] IN
      IF old.assignment \notin DOMAIN assignments THEN Fail(INTERNAL)
      ELSE LET asg == assignments[old.assignment]
               new == GradedSubmission(old, u, grade, feedback)
           IN
        IF asg.teacher # u THEN Fail(FORBIDDEN)
        ELSE IF GradeOutOfRange(grade, asg) THEN Fail(VALIDATION_ERROR)
        ELSE [code |-> OK,
              submissions |-> [submissions EXCEPT ![sid] =
                  SubmissionPreSave(new, ModifiedPaths(old, new), now)]]

GradeSubmission(u, sid, grade, feedback) ==
    /\ submissions' = GradeSubmissionResult(u, sid, grade, feedback).submissions
    /\ UNCHANGED <<classrooms, assignments, ids, now>>

\* Mutant: the submission's id stays in the assignment's list.
PullSubmissionSkipped(aid, sid) == assignments

\* Assignment.findByIdAndUpdate(id, {$pull: {submissions: sid}}).
PullSubmission(aid, sid) ==
    [i \in DOMAIN assignments |->
        IF i = aid THEN [assignments[i] EXCEPT !.submissions = Remove(@, sid)]
        ELSE assignments[i]]

\* Mutant: the status is checked before the ownership.
DeleteSubmissionStatusFirst(u, sid) ==
    LET Fail(code) == [code |-> code, submissions |-> submissions,
                       assignments |-> assignments]
    IN
    IF sid \in DOMAIN submissions /\ Locked(submissions[sid])
    THEN Fail(VALIDATION_ERROR)
    ELSE IF sid \in DOMAIN submissions THEN Fail(FORBIDDEN)
    ELSE Fail(NOT_FOUND)

\* DELETE /api/submissions/:id
DeleteSubmissionResult(u, sid) ==
    LET Fail(code) == [code |-> code, submissions |-> submissions,
                       assignments |-> assignments]
    IN
    IF sid \notin DOMAIN submissions THEN Fail(NOT_FOUND)
    ELSE LET old == submissions[sid] IN
      IF old.student # u THEN Fail(FORBIDDEN)
      ELSE IF Locked(old) THEN Fail(VALIDATION_ERROR)
      ELSE [code |-> OK,
            submissions |-> Drop(submissions, sid),
            assignments |-> PullSubmission(old.assignment, sid)]

DeleteSubmission(u, sid) ==
    LET r == DeleteSubmissionResult(u, sid) IN
    /\ submissions' = r.submissions
    /\ assignments' = r.assignments
    /\ UNCHANGED <<classrooms, ids, now>>

\* GET /api/submissions/assignment/:assignmentId: the response status and the
\* ids of the submissions it returns.
GetAssignmentSubmissionsResult(u, a) ==
    IF a \notin DOMAIN assignments
    THEN [code |-> NOT_FOUND, submissions |-> {}]
    ELSE IF assignments[a].teacher # u
    THEN [code |-> FORBIDDEN, submissions |-> {}]
    ELSE [code |-> OK,
          submissions |-> {i \in DOMAIN submissions : submissions[i].assignment = a}]

GetAssignmentSubmissions(u, a) ==
    /\ GetAssignmentSubmissionsResult(u, a).code \in {OK, NOT_FOUND, FORBIDDEN}
    /\ UNCHANGED <<classrooms, assignments, submissions, ids, now>>

\* GET /api/submissions/assignment/:assignmentId/my-submission
GetMySubmissionResult(u, a) ==
    LET found == FindSubmission(a, u) IN
    IF found = {} THEN [code |-> NOT_FOUND, submissions |-> {}]
    ELSE [code |-> OK, submissions |-> {First(found)}]

GetMySubmission(u, a) ==
    /\ GetMySubmissionResult(u, a).code \in {OK, NOT_FOUND}
    /\ UNCHANGED <<classrooms, assignments, submissions, ids, now>>

\* Mutant: every caller may view every student's submissions.
MayViewAnyone(classroom, u, studentId) == TRUE

\* The access check of getStudentSubmissions: the classroom's teacher or the
\* student whose submissions are asked for.
MayViewStudent(classroom, u, studentId) ==
    classroom.teacher = u \/ studentId = u

\* GET /api/submissions/classroom/:classroomId/student/:studentId
GetStudentSubmissionsResult(u, k, studentId) ==
    IF k \notin DOMAIN classrooms
    THEN [code |-> NOT_FOUND, submissions |-> {}]
    ELSE IF ~MayViewStudent(classrooms[k], u, studentId)
    THEN [code |-> FORBIDDEN, submissions |-> {}]
    ELSE [code |-> OK,
          submissions |-> {i \in DOMAIN submissions :
              submissions[i].classroom = k /\ submissions[i].student = studentId}]

GetStudentSubmissions(u, k, studentId) ==
    /\ GetStudentSubmissionsResult(u, k, studentId).code \in {OK, NOT_FOUND, FORBIDDEN}
    /\ UNCHANGED <<classrooms, assignments, submissions, ids, now>>

----------------------------------------------------------------------------
\* controllers/assignment.js, and the save hook of models/Classroom.js that
\* its classroom.save() runs.

\* Mutant: the classroom's save hook generates a code on every save.
ClassroomPreSaveAlways(doc, isNew, code) == [doc EXCEPT !.classCode = code]

\* classroomSchema.pre('save'): a new document gets `code`, the code the
\* generate-and-look-up loop ends with; a stored document is left as it is.
ClassroomPreSave(doc, isNew, code) ==
    IF ~isNew THEN doc ELSE [doc EXCEPT !.classCode = code]

\* classroom.save() on a loaded classroom: the hook runs on a document that
\* is not new.  The code handed to it is one the generator can draw.
SaveClassroom(doc) ==
    ClassroomPreSave(doc, FALSE,
        [i \in 1..CodeLen |-> IF i <= CodeLen \div 2 THEN "Q" ELSE "0"])

\* The document createAssignment hands to Assignment.create, with the schema defaults.
NewAssignment(k, u, dueDate, totalPoints, allowLate, penalty) ==
    [classroom |-> k, teacher |-> u, dueDate |-> dueDate,
     totalPoints |-> IF TruthyNum(totalPoints) THEN Val(totalPoints)
                     ELSE DefaultTotalPoints,
     allowLateSubmission |-> TruthyBool(allowLate),
     lateSubmissionPenalty |-> IF TruthyNum(penalty) THEN Val(penalty) ELSE 0,
     status |-> "draft", submissions |-> <<>>, publishedAt |-> None]

\* POST /api/assignments
CreateAssignmentResult(u, k, dueDate, totalPoints, allowLate, penalty) ==
    LET Fail(code) == [code |-> code, classrooms |-> classrooms,
                       assignments |-> assignments, ids |-> ids]
        doc == NewAssignment(k, u, dueDate, totalPoints, allowLate, penalty)
        aid == ids.assignment + 1
    IN
    IF k \notin DOMAIN classrooms THEN Fail(NOT_FOUND)
    ELSE IF classrooms[k].teacher # u THEN Fail(FORBIDDEN)
    ELSE IF ~AssignmentValid(doc) THEN Fail(INTERNAL)
    ELSE [code |-> CREATED,
          classrooms |-> [classrooms EXCEPT ![k] =
              SaveClassroom([classrooms[k] EXCEPT !.assignments = Append(@, aid)])],
          assignments |-> Put(assignments, aid, doc),
          ids |-> [ids EXCEPT !.assignment = aid]]

CreateAssignment(u, k, dueDate, totalPoints, allowLate, penalty) ==
    LET r == CreateAssignmentResult(u, k, dueDate, totalPoints, allowLate, penalty) IN
    /\ classrooms' = r.classrooms
    /\ assignments' = r.assignments
    /\ ids' = r.ids
    /\ UNCHANGED <<submissions, now>>

\* Assignment.findByIdAndUpdate(id, body): the paths of body replace the document's.
ApplyBody(doc, body) ==
    [f \in DOMAIN doc |-> IF f \in DOMAIN body THEN body[f] ELSE doc[f]]

\* PUT /api/assignments/:id
UpdateAssignmentResult(u, aid, body) ==
    LET Fail(code) == [code |-> code, assignments |-> assignments] IN
    IF aid \notin DOMAIN assignments THEN Fail(NOT_FOUND)
    ELSE IF assignments[aid].teacher # u THEN Fail(FORBIDDEN)
    ELSE IF ~AssignmentValid(ApplyBody(assignments[aid], body)) THEN Fail(INTERNAL)
    ELSE [code |-> OK,
          assignments |-> [assignments EXCEPT ![aid] = ApplyBody(@, body)]]

UpdateAssignment(u, aid, body) ==
    /\ assignments' = UpdateAssignmentResult(u, aid, body).assignments
    /\ UNCHANGED <<classrooms, submissions, ids, now>>

\* Classroom.findByIdAndUpdate(id, {$pull: {assignments: aid}}).
PullAssignment(k, aid) ==
    [i \in DOMAIN classrooms |->
        IF i = k THEN [classrooms[i] EXCEPT !.assignments = Remove(@, aid)]
        ELSE classrooms[i]]

\* DELETE /api/assignments/:id
DeleteAssignmentResult(u, aid) ==
    LET Fail(code) == [code |-> code, classrooms |-> classrooms,
                       assignments |-> assignments]
    IN
    IF aid \notin DOMAIN assignments THEN Fail(NOT_FOUND)
    ELSE IF assignments[aid].teacher # u THEN Fail(FORBIDDEN)
    ELSE [code |-> OK,
          classrooms |-> PullAssignment(assignments[aid].classroom, aid),
          assignments |-> Drop(assignments, aid)]

\* Mutant: deleting an assignment deletes its submissions with it.
DeleteAssignmentCascades(u, aid) ==
    LET r == DeleteAssignmentResult(u, aid) IN
    /\ classrooms' = r.classrooms
    /\ assignments' = r.assignments
    /\ submissions' = IF r.code = OK
                      THEN [i \in {j \in DOMAIN submissions : submissions[j].assignment # aid}
                               |-> submissions[i]]
                      ELSE submissions
    /\ UNCHANGED <<ids, now>>

DeleteAssignment(u, aid) ==
    LET r == DeleteAssignmentResult(u, aid) IN
    /\ classrooms' = r.classrooms
    /\ assignments' = r.assignments
    /\ UNCHANGED <<submissions, ids, now>>

\* The fields publishAssignment assigns before saving.
PublishedAssignment(old, t) ==
    [old EXCEPT !.status = "published", !.publishedAt = Some(t)]

\* PUT /api/assignments/:id/publish
PublishAssignmentResult(u, aid) ==
    LET Fail(code) == [code |-> code, assignments |-> assignments] IN
    IF aid \notin DOMAIN assignments THEN Fail(NOT_FOUND)
    ELSE IF assignments[aid].teacher # u THEN Fail(FORBIDDEN)
    ELSE LET old == assignments[aid]
             new == PublishedAssignment(old, now)
             modified == {p \in {"status", "publishedAt"} : old[p] # new[p]}
         IN [code |-> OK,
             assignments |-> [assignments EXCEPT ![aid] =
                 AssignmentPreSave(new, modified, now)]]

PublishAssignment(u, aid) ==
    /\ assignments' = PublishAssignmentResult(u, aid).assignments
    /\ UNCHANGED <<classrooms, submissions, ids, now>>

----------------------------------------------------------------------------
\* Classroom controllers (the classroom part of controllers/submission.js).

\* The alphabet of join codes.
Chars == <<"A", "B", "C", "D", "E", "F", "G", "H", "I", "J", "K", "L", "M",
           "N", "O", "P", "Q", "R", "S", "T", "U", "V", "W", "X", "Y", "Z",
           "0", "1", "2", "3", "4", "5", "6", "7", "8", "9">>

\* generateCode: one character per pick, where picks[i] is the value of
\* Math.floor(Math.random() * chars.length) in round i.
GenerateCode(picks) == [i \in 1..CodeLen |-> Chars[picks[i] + 1]]

\* The picks the specifications let the random generator make.
ABC123 == <<0, 1, 2, 27, 28, 29>>
XYZ789 == <<23, 24, 25, 33, 34, 35>>
QQQ000 == <<16, 16, 16, 26, 26, 26>>

\* The join codes held by stored classrooms.
CodesInUse == {classrooms[k].classCode : k \in DOMAIN classrooms}

\* POST /api/classrooms.  `code` is the candidate the save hook ends its
\* generate-and-look-up loop with: one that no stored classroom holds.
CreateClassroomResult(u, code) ==
    LET kid == ids.classroom + 1 IN
    IF u \notin Teachers
    THEN [code |-> FORBIDDEN, classrooms |-> classrooms, ids |-> ids]
    ELSE [code |-> CREATED,
          classrooms |-> Put(classrooms, kid,
              ClassroomPreSave([classCode |-> <<>>, teacher |-> u,
                                students |-> <<>>, assignments |-> <<>>],
                               TRUE, code)),
          ids |-> [ids EXCEPT !.classroom = kid]]

CreateClassroom(u, code) ==
    LET r == CreateClassroomResult(u, code) IN
    /\ code \notin CodesInUse
    /\ classrooms' = r.classrooms
    /\ ids' = r.ids
    /\ UNCHANGED <<assignments, submissions, now>>

\* Classroom.findOne({classCode}): the ids that match.
FindByCode(code) == {k \in DOMAIN classrooms : classrooms[k].classCode = code}

\* Mutant: joinClassroom does not look for the caller among the students.
JoinClassroomUnchecked(u, code) ==
    LET found == FindByCode(code) IN
    IF found = {} \/ classrooms[First(found)].teacher = u
    THEN [code |-> IF found = {} THEN NOT_FOUND ELSE VALIDATION_ERROR,
          classrooms |-> classrooms]
    ELSE [code |-> OK,
          classrooms |-> [classrooms EXCEPT ![First(found)].students = Append(@, u)]]

\* POST /api/classrooms/join
JoinClassroomResult(u, code) ==
    LET Fail(c) == [code |-> c, classrooms |-> classrooms]
        found == FindByCode(code)
    IN
    IF found = {} THEN Fail(NOT_FOUND)
    ELSE LET k == First(found) IN
      IF u \in Range(classrooms[k].students) THEN Fail(VALIDATION_ERROR)
      ELSE IF classrooms[k].teacher = u THEN Fail(VALIDATION_ERROR)
      ELSE [code |-> OK,
            classrooms |-> [classrooms EXCEPT ![k] =
                SaveClassroom([classrooms[k] EXCEPT !.students = Append(@, u)])]]

JoinClassroom(u, code) ==
    /\ classrooms' = JoinClassroomResult(u, code).classrooms
    /\ UNCHANGED <<assignments, submissions, ids, now>>

\* POST /api/classrooms/:id/leave
LeaveClassroomResult(u, k) ==
    LET Fail(c) == [code |-> c, classrooms |-> classrooms] IN
    IF k \notin DOMAIN classrooms THEN Fail(NOT_FOUND)
    ELSE IF u \notin Range(classrooms[k].students) THEN Fail(VALIDATION_ERROR)
    ELSE [code |-> OK,
          classrooms |-> [classrooms EXCEPT ![k] =
              SaveClassroom([classrooms[k] EXCEPT !.students = Remove(@, u)])]]

LeaveClassroom(u, k) ==
    /\ classrooms' = LeaveClassroomResult(u, k).classrooms
    /\ UNCHANGED <<assignments, submissions, ids, now>>

\* DELETE /api/classrooms/:id
DeleteClassroomResult(u, k) ==
    LET Fail(c) == [code |-> c, classrooms |-> classrooms] IN
    IF k \notin DOMAIN classrooms THEN Fail(NOT_FOUND)
    ELSE IF classrooms[k].teacher # u THEN Fail(FORBIDDEN)
    ELSE [code |-> OK, classrooms |-> Drop(classrooms, k)]

DeleteClassroom(u, k) ==
    /\ classrooms' = DeleteClassroomResult(u, k).classrooms
    /\ UNCHANGED <<assignments, submissions, ids, now>>

----------------------------------------------------------------------------
\* Time passes between requests.
Tick(d) ==
    /\ now' = now + d
    /\ UNCHANGED <<classrooms, assignments, submissions, ids>>

----------------------------------------------------------------------------
\* The requests the specifications draw from.

\* The ids a request may name: every id given out so far and one never given out.
Refs(n) == 1..(n + 1)
ClassroomRefs == Refs(ids.classroom)
AssignmentRefs == Refs(ids.assignment)
SubmissionRefs == Refs(ids.submission)

\* A request that changes the store, or a clock tick, is one step of the budget.
Counted(max) ==
    /\ steps' = IF store' # store THEN steps + 1 ELSE steps
    /\ steps' <= max

\* One step of a behaviour that handles its requests one at a time.
Step(A, max) == A /\ Counted(max) /\ UNCHANGED pcs

\* Every handler, one request at a time, with the request fields drawn from `in`.
Handle(in) ==
    \/ \E u \in in.creators, code \in in.codes :
          Step(CreateClassroom(u, code), in.max)
    \/ \E u \in in.students, code \in in.codes :
          Step(JoinClassroom(u, code), in.max)
    \/ \E u \in in.students, k \in ClassroomRefs :
          Step(LeaveClassroom(u, k), in.max)
    \/ \E u \in in.creators, k \in ClassroomRefs :
          Step(DeleteClassroom(u, k), in.max)
    \/ \E u \in in.creators, k \in ClassroomRefs, cfg \in in.configs :
          Step(CreateAssignment(u, k, cfg.dueDate, cfg.totalPoints,
                   cfg.allowLateSubmission, cfg.lateSubmissionPenalty), in.max)
    \/ \E u \in in.creators, a \in AssignmentRefs, body \in in.bodies :
          Step(UpdateAssignment(u, a, body), in.max)
    \/ \E u \in in.creators, a \in AssignmentRefs :
          Step(PublishAssignment(u, a), in.max)
    \/ \E u \in in.creators, a \in AssignmentRefs :
          Step(DeleteAssignment(u, a), in.max)
    \/ \E u \in in.students, a \in AssignmentRefs, c \in in.contents,
          att \in in.attachments, st \in in.statuses :
          Step(CreateSubmission(u, Some(a), c, att, st), in.max)
    \/ \E u \in in.graders, sid \in SubmissionRefs, g \in in.grades,
          f \in in.feedbacks : Step(GradeSubmission(u, sid, g, f), in.max)
    \/ \E u \in in.students, sid \in SubmissionRefs :
          Step(DeleteSubmission(u, sid), in.max)
    \/ \E u \in in.creators, a \in AssignmentRefs :
          Step(GetAssignmentSubmissions(u, a), in.max)
    \/ \E u \in in.students, a \in AssignmentRefs :
          Step(GetMySubmission(u, a), in.max)
    \/ \E u \in in.creators \cup in.students, k \in ClassroomRefs,
          studentId \in in.students :
          Step(GetStudentSubmissions(u, k, studentId), in.max)
    \/ \E d \in in.deltas : Step(Tick(d), in.max)

\* The grading lifecycle: two students, one assignment configuration.
LifecycleInputs ==
    [creators |-> {"t1"}, students |-> Students, codes |-> {GenerateCode(ABC123)},
     configs |-> {[dueDate |-> 0, totalPoints |-> Some(2),
                   allowLateSubmission |-> Some(TRUE),
                   lateSubmissionPenalty |-> Some(5)]},
     bodies |-> {[totalPoints |-> 1], [status |-> "draft"]},
     contents |-> {None, Some("c1")}, attachments |-> {None},
     statuses |-> {None, Some("draft"), Some("submitted"), Some("graded")},
     graders |-> {"t1"}, grades |-> {None, Some(0), Some(2)},
     feedbacks |-> {None, Some("fb")}, deltas |-> {1}, max |-> MaxSteps]

Next == Handle(LifecycleInputs)

Spec == Init /\ [][Next]_vars

\* Late submission: one student, due dates before and after the clock's
\* reach, with and without a penalty, and ticks of half a day and of three days.
LateInputs ==
    [creators |-> {"t1"}, students |-> {"s1"}, codes |-> {GenerateCode(ABC123)},
     configs |-> {[dueDate |-> 0, totalPoints |-> Some(2),
                   allowLateSubmission |-> Some(TRUE),
                   lateSubmissionPenalty |-> Some(5)],
                  [dueDate |-> 6, totalPoints |-> Some(2),
                   allowLateSubmission |-> Some(TRUE),
                   lateSubmissionPenalty |-> None]},
     bodies |-> {[dueDate |-> 1]},
     contents |-> {None}, attachments |-> {None},
     statuses |-> {None, Some("draft"), Some("submitted")},
     graders |-> {"t1"}, grades |-> {Some(1)},
     feedbacks |-> {None}, deltas |-> {1, 6}, max |-> MaxSteps]

NextLate == Handle(LateInputs)

SpecLate == Init /\ [][NextLate]_vars

----------------------------------------------------------------------------
\* createSubmission one await at a time, so that requests interleave.

\* A request as it arrives: nothing looked up yet.
Arrived(u, a, content, attachments, status) ==
    [user |-> u, assignment |-> a, content |-> content,
     attachments |-> attachments, status |-> status, pc |-> "findAssignment",
     assignmentDoc |-> None, submission |-> None, missed |-> FALSE, code |-> None]

\* res.status(code).json(...): the request is answered.
Respond(req, code) == [req EXCEPT !.pc = "done", !.code = Some(code)]

\* A request arrives at the server.
Arrive(u, a, content, attachments, status) ==
    /\ Len(pcs) < MaxRequests
    /\ pcs' = Append(pcs, Arrived(u, a, content, attachments, status))
    /\ UNCHANGED <<classrooms, assignments, submissions, ids, now, steps>>

\* Up to the return of Assignment.findById.
AfterFindAssignment(req) ==
    IF req.assignment = None THEN Respond(req, VALIDATION_ERROR)
    ELSE IF Val(req.assignment) \notin DOMAIN assignments
    THEN Respond(req, NOT_FOUND)
    ELSE IF assignments[Val(req.assignment)].status # "published"
    THEN Respond(req, VALIDATION_ERROR)
    ELSE [req EXCEPT !.assignmentDoc = Some(assignments[Val(req.assignment)]),
                     !.pc = "findClassroom"]

FindAssignmentStep(n) ==
    /\ pcs[n].pc = "findAssignment"
    /\ pcs' = [pcs EXCEPT ![n] = AfterFindAssignment(@)]
    /\ UNCHANGED <<classrooms, assignments, submissions, ids, now, steps>>

\* Up to the return of Classroom.findById, and the checks that follow it.
AfterFindClassroom(req) ==
    LET asg == Val(req.assignmentDoc) IN
    IF asg.classroom \notin DOMAIN classrooms THEN Respond(req, INTERNAL)
    ELSE IF ~IsEnrolled(classrooms[asg.classroom], req.user)
    THEN Respond(req, FORBIDDEN)
    ELSE IF PastDue(asg, now) THEN Respond(req, VALIDATION_ERROR)
    ELSE [req EXCEPT !.pc = "findOne"]

FindClassroomStep(n) ==
    /\ pcs[n].pc = "findClassroom"
    /\ pcs' = [pcs EXCEPT ![n] = AfterFindClassroom(@)]
    /\ UNCHANGED <<classrooms, assignments, submissions, ids, now, steps>>

\* Up to the return of Submission.findOne, and the lock check.
AfterFindOne(req) ==
    LET found == FindSubmission(Val(req.assignment), req.user) IN
    IF found = {} THEN [req EXCEPT !.missed = TRUE, !.pc = "create"]
    ELSE IF Locked(submissions[First(found)])
    THEN Respond(req, VALIDATION_ERROR)
    ELSE [req EXCEPT !.submission = Some([id |-> First(found),
                                          doc |-> submissions[First(found)]]),
                     !.pc = "save"]

FindOneStep(n) ==
    /\ pcs[n].pc = "findOne"
    /\ pcs' = [pcs EXCEPT ![n] = AfterFindOne(@)]
    /\ UNCHANGED <<classrooms, assignments, submissions, ids, now, steps>>

\* save() of a loaded document writes the paths that differ from what was loaded.
WriteBack(stored, loaded, saved) ==
    [f \in DOMAIN stored |-> IF saved[f] # loaded[f] THEN saved[f] ELSE stored[f]]

\* The update branch: merge the request into the loaded document and save it.
SaveStep(n) ==
    LET req == pcs[n]
        sid == Val(req.submission).id
        old == Val(req.submission).doc
        new == MergeSubmission(old, req.content, req.attachments, req.status)
        saved == SubmissionPreSave(new, ModifiedPaths(old, new), now)
        ok == SubmissionValid(new) /\ sid \in DOMAIN submissions
    IN /\ req.pc = "save"
       /\ submissions' = IF ok
                         THEN [submissions EXCEPT ![sid] = WriteBack(@, old, saved)]
                         ELSE submissions
       /\ pcs' = [pcs EXCEPT ![n] = Respond(@, IF ok THEN OK ELSE INTERNAL)]
       /\ UNCHANGED <<classrooms, assignments, ids, now, steps>>

\* The create branch: Submission.create, which the unique index may refuse.
CreateStep(n) ==
    LET req == pcs[n]
        a == Val(req.assignment)
        doc == FreshSubmission(a, req.user, Val(req.assignmentDoc).classroom,
                               req.content, req.attachments, req.status)
        sid == ids.submission + 1
        ok == SubmissionValid(doc) /\ UniqueIndexAllows(a, req.user)
    IN /\ req.pc = "create"
       /\ submissions' = IF ok
                         THEN Put(submissions, sid,
                                  SubmissionPreSave(doc, {"status"}, now))
                         ELSE submissions
       /\ ids' = IF ok THEN [ids EXCEPT !.submission = sid] ELSE ids
       /\ pcs' = [pcs EXCEPT ![n] =
                     IF ok
                     THEN [@ EXCEPT !.submission = Some([id |-> sid, doc |-> doc]),
                                    !.pc = "push"]
                     ELSE Respond(@, INTERNAL)]
       /\ UNCHANGED <<classrooms, assignments, now, steps>>

\* assignmentDoc.submissions.push(submission._id) and assignmentDoc.save().
PushStep(n) ==
    LET req == pcs[n]
        a == Val(req.assignment)
        ok == a \in DOMAIN assignments
    IN /\ req.pc = "push"
       /\ assignments' = IF ok
                         THEN [assignments EXCEPT ![a].submissions =
                                  Append(@, Val(req.submission).id)]
                         ELSE assignments
       /\ pcs' = [pcs EXCEPT ![n] = Respond(@, IF ok THEN CREATED ELSE INTERNAL)]
       /\ UNCHANGED <<classrooms, submissions, ids, now, steps>>

\* The requests that prepare a classroom with a published assignment.
Setup(in) ==
    \/ \E u \in in.creators, code \in in.codes :
          Step(CreateClassroom(u, code), in.max)
    \/ \E u \in in.students, code \in in.codes :
          Step(JoinClassroom(u, code), in.max)
    \/ \E u \in in.creators, k \in ClassroomRefs, cfg \in in.configs :
          Step(CreateAssignment(u, k, cfg.dueDate, cfg.totalPoints,
                   cfg.allowLateSubmission, cfg.lateSubmissionPenalty), in.max)
    \/ \E u \in in.creators, a \in AssignmentRefs :
          Step(PublishAssignment(u, a), in.max)

\* Concurrent submission: one student whose requests overlap.
RaceInputs ==
    [creators |-> {"t1"}, students |-> {"s1"}, codes |-> {GenerateCode(ABC123)},
     configs |-> {[dueDate |-> 0, totalPoints |-> Some(2),
                   allowLateSubmission |-> Some(TRUE),
                   lateSubmissionPenalty |-> Some(5)]},
     contents |-> {None}, attachments |-> {None},
     statuses |-> {None, Some("submitted")}, max |-> MaxSetup]

NextRace ==
    \/ Setup(RaceInputs)
    \/ \E u \in RaceInputs.students, a \in AssignmentRefs,
          c \in RaceInputs.contents, att \in RaceInputs.attachments,
          st \in RaceInputs.statuses : Arrive(u, Some(a), c, att, st)
    \/ \E n \in DOMAIN pcs : FindAssignmentStep(n)
    \/ \E n \in DOMAIN pcs : FindClassroomStep(n)
    \/ \E n \in DOMAIN pcs : FindOneStep(n)
    \/ \E n \in DOMAIN pcs : SaveStep(n)
    \/ \E n \in DOMAIN pcs : CreateStep(n)
    \/ \E n \in DOMAIN pcs : PushStep(n)

SpecRace == Init /\ [][NextRace]_vars

----------------------------------------------------------------------------
\* createClassroom one await at a time, so that creations interleave.

\* POST /api/classrooms arrives: the role check, then Classroom.create starts
\* the save hook.
ArriveCreateClassroom(u) ==
    /\ Len(pcs) < MaxRequests
    /\ pcs' = Append(pcs,
           IF u \in Teachers
           THEN [user |-> u, pc |-> "findOne", classCode |-> None, code |-> None]
           ELSE [user |-> u, pc |-> "done", classCode |-> None,
                 code |-> Some(FORBIDDEN)])
    /\ UNCHANGED <<classrooms, assignments, submissions, ids, now, steps>>

\* Mutant: the loop keeps the first code it generates, taken or not.
AfterFindCodeKeepsAny(req, candidate) ==
    [req EXCEPT !.classCode = Some(candidate), !.pc = "insert"]

\* One round of the save hook's loop: generate a code and look it up; a code
\* that is in use is dropped for another round, a free one is kept.
AfterFindCode(req, candidate) ==
    IF FindByCode(candidate) # {}
    THEN req
    ELSE [req EXCEPT !.classCode = Some(candidate), !.pc = "insert"]

FindCodeStep(n, candidate) ==
    /\ pcs[n].pc = "findOne"
    /\ pcs' = [pcs EXCEPT ![n] = AfterFindCode(@, candidate)]
    /\ UNCHANGED <<classrooms, assignments, submissions, ids, now, steps>>

\* The insert after the hook: the unique index on classCode may refuse it.
InsertClassroomStep(n) ==
    LET req == pcs[n]
        r == CreateClassroomResult(req.user, Val(req.classCode))
        ok == Val(req.classCode) \notin CodesInUse
    IN /\ req.pc = "insert"
       /\ classrooms' = IF ok THEN r.classrooms ELSE classrooms
       /\ ids' = IF ok THEN r.ids ELSE ids
       /\ pcs' = [pcs EXCEPT ![n] = Respond(@, IF ok THEN r.code ELSE INTERNAL)]
       /\ UNCHANGED <<assignments, submissions, now, steps>>

\* Concurrent classroom creation: a teacher and a student who joins by code,
\* three possible codes.
CodeInputs ==
    [users |-> {"t1", "s1"},
     codes |-> {GenerateCode(ABC123), GenerateCode(XYZ789), GenerateCode(QQQ000)}]

NextCodes ==
    \/ \E u \in CodeInputs.users : ArriveCreateClassroom(u)
    \/ \E n \in DOMAIN pcs, candidate \in CodeInputs.codes : FindCodeStep(n, candidate)
    \/ \E n \in DOMAIN pcs : InsertClassroomStep(n)
    \/ \E u \in CodeInputs.users, code \in CodeInputs.codes :
          Step(JoinClassroom(u, code), MaxSteps)

SpecCodes == Init /\ [][NextCodes]_vars

\* The random generator is fair: a request that stays in the loop draws each
\* code again and again, so a round that would draw a free code is not
\* postponed for ever.
FairChoice ==
    \A n \in 1..MaxRequests : \A candidate \in CodeInputs.codes :
        SF_vars(n \in DOMAIN pcs /\ FindCodeStep(n, candidate))

SpecCodesFair == SpecCodes /\ FairChoice

----------------------------------------------------------------------------
\* The virtuals of a submission, computed when a document is serialised.
\* Grades, penalties and points are counted here in thousandths of a point,
\* so that values with up to three decimals are exact.

\* Thousandths in one point.
PerPoint == 10 * 10 * 10

\* Math.max
Max(a, b) == IF a >= b THEN a ELSE b

\* Math.round(n / d) for d > 0: the nearest integer, halves upwards.
RoundHalfUp(n, d) == (2 * n + d) \div (2 * d)

\* Mutant: the final grade is not floored at zero.
FinalGradeUnfloored(doc) ==
    IF doc.grade = None THEN None
    ELSE Some(RoundHalfUp((Val(doc.grade) - doc.penaltyApplied) * 100, PerPoint)
              * (PerPoint \div 100))

\* submissionSchema.virtual('finalGrade'): null, or the grade less the
\* penalty, floored at 0 and rounded to hundredths of a point.
FinalGrade(doc) ==
    IF doc.grade = None THEN None
    ELSE LET penalty == doc.penaltyApplied
             finalGrade == Max(0, Val(doc.grade) - penalty)
         IN Some(RoundHalfUp(finalGrade * 100, PerPoint) * (PerPoint \div 100))

\* submissionSchema.virtual('gradePercentage'): `asg` is the populated
\* assignment, or None when it is not populated.
GradePercentage(doc, asg) ==
    LET finalGrade == FinalGrade(doc) IN
    IF finalGrade = None THEN None
    ELSE IF asg # None /\ Val(asg).totalPoints # 0
    THEN Some(RoundHalfUp(Val(finalGrade) * 100, Val(asg).totalPoints))
    ELSE None

\* A query has loaded a submission with these fields and populated its assignment.
Load(grade, penaltyApplied, asg) ==
    /\ pcs = <<>>
    /\ pcs' = <<[doc |-> [grade |-> grade, penaltyApplied |-> penaltyApplied],
                 assignment |-> asg, pc |-> "toJSON",
                 finalGrade |-> None, gradePercentage |-> None]>>
    /\ UNCHANGED <<classrooms, assignments, submissions, ids, now, steps>>

\* toJSON with virtuals: the response carries finalGrade and gradePercentage.
ToJSON(n) ==
    /\ pcs[n].pc = "toJSON"
    /\ pcs' = [pcs EXCEPT ![n].finalGrade = FinalGrade(pcs[n].doc),
                          ![n].gradePercentage =
                              GradePercentage(pcs[n].doc, pcs[n].assignment),
                          ![n].pc = "done"]
    /\ UNCHANGED <<classrooms, assignments, submissions, ids, now, steps>>

\* Serialised documents: grades, penalties and totals with and without a
\* third decimal, in thousandths of a point.
VirtualInputs ==
    [grades |-> {None, Some(0), Some(4), Some(6), Some(1000), Some(65000),
                 Some(80000), Some(80006)},
     penalties |-> {0, 5, 15000, 100000},
     assignments |-> {None, Some([totalPoints |-> 0]), Some([totalPoints |-> 3000]),
                      Some([totalPoints |-> 100000])}]

NextVirtuals ==
    \/ \E g \in VirtualInputs.grades, p \in VirtualInputs.penalties,
          asg \in VirtualInputs.assignments : Load(g, p, asg)
    \/ \E n \in DOMAIN pcs : ToJSON(n)

SpecVirtuals == Init /\ [][NextVirtuals]_vars

----------------------------------------------------------------------------
\* A caller that repeats a request whose answer it did not receive.  Each
\* record of pcs is one request of the caller: its payload, the status and
\* the stored state the first attempt left, and the caller's position.

\* Every earlier request of the caller has been repeated.
Settled == \A n \in DOMAIN pcs : pcs[n].pc = "retried"

\* POST /api/submissions succeeds; the caller keeps the payload.
SendCreateSubmission(u, a, content, attachments, status) ==
    LET r == CreateSubmissionResult(u, a, content, attachments, status) IN
    /\ Len(pcs) < MaxRequests /\ Settled
    /\ r.code \in {OK, CREATED}
    /\ CreateSubmission(u, a, content, attachments, status)
    /\ pcs' = Append(pcs, [kind |-> "createSubmission", user |-> u, assignment |-> a,
                           content |-> content, attachments |-> attachments,
                           status |-> status, pc |-> "sent", code |-> r.code,
                           after |-> <<r.submissions, r.assignments>>,
                           retryCode |-> None])
    /\ UNCHANGED steps

\* PUT /api/submissions/:id/grade succeeds; the caller keeps the payload.
SendGradeSubmission(u, sid, grade, feedback) ==
    LET r == GradeSubmissionResult(u, sid, grade, feedback) IN
    /\ Len(pcs) < MaxRequests /\ Settled
    /\ r.code = OK
    /\ GradeSubmission(u, sid, grade, feedback)
    /\ pcs' = Append(pcs, [kind |-> "gradeSubmission", user |-> u, submission |-> sid,
                           grade |-> grade, feedback |-> feedback,
                           pc |-> "sent", code |-> r.code,
                           after |-> <<r.submissions, assignments>>,
                           retryCode |-> None])
    /\ UNCHANGED steps

\* The transport times out: d ticks pass before the caller gives up waiting.
Timeout(n, d) ==
    /\ pcs[n].pc = "sent"
    /\ pcs' = [pcs EXCEPT ![n].pc = "timedOut"]
    /\ Tick(d)
    /\ UNCHANGED steps

\* The caller sends the same payload again and the handler runs once more.
Retry(n) ==
    LET req == pcs[n] IN
    /\ req.pc \in {"sent", "timedOut"}
    /\ IF req.kind = "createSubmission"
       THEN /\ CreateSubmission(req.user, req.assignment, req.content,
                                req.attachments, req.status)
            /\ pcs' = [pcs EXCEPT ![n].pc = "retried",
                          ![n].retryCode = Some(CreateSubmissionResult(req.user,
                              req.assignment, req.content, req.attachments,
                              req.status).code)]
       ELSE /\ GradeSubmission(req.user, req.submission, req.grade, req.feedback)
            /\ pcs' = [pcs EXCEPT ![n].pc = "retried",
                          ![n].retryCode = Some(GradeSubmissionResult(req.user,
                              req.submission, req.grade, req.feedback).code)]
    /\ UNCHANGED steps

\* One student and one teacher whose successful requests are each repeated.
RetryInputs ==
    [creators |-> {"t1"}, students |-> {"s1"}, codes |-> {GenerateCode(ABC123)},
     configs |-> {[dueDate |-> 0, totalPoints |-> Some(2),
                   allowLateSubmission |-> Some(TRUE),
                   lateSubmissionPenalty |-> Some(5)]},
     contents |-> {Some("c1")}, attachments |-> {None, Some(<<"f1">>)},
     statuses |-> {None, Some("draft"), Some("submitted"), Some("graded")},
     graders |-> {"t1"}, grades |-> {None, Some(1)}, feedbacks |-> {Some("fb")},
     deltas |-> {1, 6}, max |-> MaxSetup]

\* A request that prepares the store, before the caller's first request.
Before(A) == pcs = <<>> /\ Step(A, RetryInputs.max)

NextRetry ==
    \/ \E u \in RetryInputs.creators, code \in RetryInputs.codes :
          Before(CreateClassroom(u, code))
    \/ \E u \in RetryInputs.students, code \in RetryInputs.codes :
          Before(JoinClassroom(u, code))
    \/ \E u \in RetryInputs.creators, k \in ClassroomRefs, cfg \in RetryInputs.configs :
          Before(CreateAssignment(u, k, cfg.dueDate, cfg.totalPoints,
                     cfg.allowLateSubmission, cfg.lateSubmissionPenalty))
    \/ \E u \in RetryInputs.creators, a \in AssignmentRefs :
          Before(PublishAssignment(u, a))
    \/ \E d \in RetryInputs.deltas : Before(Tick(d))
    \/ \E u \in RetryInputs.students, a \in AssignmentRefs,
          c \in RetryInputs.contents, att \in RetryInputs.attachments,
          st \in RetryInputs.statuses : SendCreateSubmission(u, Some(a), c, att, st)
    \/ \E u \in RetryInputs.graders, sid \in SubmissionRefs,
          g \in RetryInputs.grades, f \in RetryInputs.feedbacks :
          SendGradeSubmission(u, sid, g, f)
    \/ \E n \in DOMAIN pcs, d \in RetryInputs.deltas : Timeout(n, d)
    \/ \E n \in DOMAIN pcs : Retry(n)

SpecRetry == Init /\ [][NextRetry]_vars

----------------------------------------------------------------------------
\* gradeSubmission and deleteSubmission, interleaved at their awaits with
\* each other and with createSubmission.

\* PUT /api/submissions/:id/grade arrives.
ArriveGrade(u, sid, grade, feedback) ==
    /\ Len(pcs) < MaxRequests
    /\ pcs' = Append(pcs, [user |-> u, id |-> sid, grade |-> grade,
                           feedback |-> feedback, pc |-> "grade.findById",
                           doc |-> None, code |-> None])
    /\ UNCHANGED <<classrooms, assignments, submissions, ids, now, steps>>

\* Up to the return of Submission.findById(...).populate('assignment'), and
\* the checks that follow it.
AfterGradeFind(req) ==
    IF req.id \notin DOMAIN submissions THEN Respond(req, NOT_FOUND)
    ELSE LET old == submissions[req.id] IN
      IF old.assignment \notin DOMAIN assignments THEN Respond(req, INTERNAL)
      ELSE IF assignments[old.assignment].teacher # req.user
      THEN Respond(req, FORBIDDEN)
      ELSE IF GradeOutOfRange(req.grade, assignments[old.assignment])
      THEN Respond(req, VALIDATION_ERROR)
      ELSE [req EXCEPT !.doc = Some(old), !.pc = "grade.save"]

GradeFindStep(n) ==
    /\ pcs[n].pc = "grade.findById"
    /\ pcs' = [pcs EXCEPT ![n] = AfterGradeFind(@)]
    /\ UNCHANGED <<classrooms, assignments, submissions, ids, now, steps>>

\* The grade is assigned to the loaded document and saved.
GradeSaveStep(n) ==
    LET req == pcs[n]
        old == Val(req.doc)
        new == GradedSubmission(old, req.user, req.grade, req.feedback)
        saved == SubmissionPreSave(new, ModifiedPaths(old, new), now)
        ok == req.id \in DOMAIN submissions
    IN /\ req.pc = "grade.save"
       /\ submissions' = IF ok
                         THEN [submissions EXCEPT ![req.id] = WriteBack(@, old, saved)]
                         ELSE submissions
       /\ pcs' = [pcs EXCEPT ![n] = Respond(@, IF ok THEN OK ELSE INTERNAL)]
       /\ UNCHANGED <<classrooms, assignments, ids, now, steps>>

\* DELETE /api/submissions/:id arrives.
ArriveDelete(u, sid) ==
    /\ Len(pcs) < MaxRequests
    /\ pcs' = Append(pcs, [user |-> u, id |-> sid, pc |-> "delete.findById",
                           doc |-> None, code |-> None])
    /\ UNCHANGED <<classrooms, assignments, submissions, ids, now, steps>>

\* Up to the return of Submission.findById, and the checks that follow it.
AfterDeleteFind(req) ==
    IF req.id \notin DOMAIN submissions THEN Respond(req, NOT_FOUND)
    ELSE LET old == submissions[req.id] IN
      IF old.student # req.user THEN Respond(req, FORBIDDEN)
      ELSE IF Locked(old) THEN Respond(req, VALIDATION_ERROR)
      ELSE [req EXCEPT !.doc = Some(old), !.pc = "delete.pull"]

DeleteFindStep(n) ==
    /\ pcs[n].pc = "delete.findById"
    /\ pcs' = [pcs EXCEPT ![n] = AfterDeleteFind(@)]
    /\ UNCHANGED <<classrooms, assignments, submissions, ids, now, steps>>

\* Assignment.findByIdAndUpdate with $pull.
DeletePullStep(n) ==
    /\ pcs[n].pc = "delete.pull"
    /\ assignments' = PullSubmission(Val(pcs[n].doc).assignment, pcs[n].id)
    /\ pcs' = [pcs EXCEPT ![n].pc = "delete.deleteOne"]
    /\ UNCHANGED <<classrooms, submissions, ids, now, steps>>

\* submission.deleteOne() and the response.
DeleteOneStep(n) ==
    /\ pcs[n].pc = "delete.deleteOne"
    /\ submissions' = Drop(submissions, pcs[n].id)
    /\ pcs' = [pcs EXCEPT ![n] = Respond(@, OK)]
    /\ UNCHANGED <<classrooms, assignments, ids, now, steps>>

\* One student and the teacher, whose requests on one submission overlap.
LockInputs ==
    [creators |-> {"t1"}, students |-> {"s1"}, codes |-> {GenerateCode(ABC123)},
     configs |-> {[dueDate |-> 0, totalPoints |-> Some(2),
                   allowLateSubmission |-> Some(TRUE),
                   lateSubmissionPenalty |-> Some(5)]},
     contents |-> {Some("c1"), Some("c2")}, attachments |-> {None},
     statuses |-> {None, Some("draft"), Some("submitted")},
     graders |-> {"t1"}, grades |-> {Some(1)}, feedbacks |-> {None},
     max |-> MaxSetup + 1]

NextLock ==
    \/ Setup(LockInputs)
    \/ \E u \in LockInputs.students, a \in AssignmentRefs :
          Step(CreateSubmission(u, Some(a), Some("c1"), None, Some("submitted")),
               LockInputs.max)
    \/ \E u \in LockInputs.students, a \in AssignmentRefs,
          c \in LockInputs.contents, att \in LockInputs.attachments,
          st \in LockInputs.statuses : Arrive(u, Some(a), c, att, st)
    \/ \E n \in DOMAIN pcs : FindAssignmentStep(n)
    \/ \E n \in DOMAIN pcs : FindClassroomStep(n)
    \/ \E n \in DOMAIN pcs : FindOneStep(n)
    \/ \E n \in DOMAIN pcs : SaveStep(n)
    \/ \E n \in DOMAIN pcs : CreateStep(n)
    \/ \E n \in DOMAIN pcs : PushStep(n)
    \/ \E u \in LockInputs.graders, sid \in SubmissionRefs,
          g \in LockInputs.grades, f \in LockInputs.feedbacks :
          ArriveGrade(u, sid, g, f)
    \/ \E n \in DOMAIN pcs : GradeFindStep(n)
    \/ \E n \in DOMAIN pcs : GradeSaveStep(n)
    \/ \E u \in LockInputs.students, sid \in SubmissionRefs : ArriveDelete(u, sid)
    \/ \E n \in DOMAIN pcs : DeleteFindStep(n)
    \/ \E n \in DOMAIN pcs : DeletePullStep(n)
    \/ \E n \in DOMAIN pcs : DeleteOneStep(n)

SpecLock == Init /\ [][NextLock]_vars

----------------------------------------------------------------------------
\* joinClassroom, interleaved at its awaits.

\* POST /api/classrooms/join arrives with a class code.
ArriveJoin(u, code) ==
    /\ Len(pcs) < MaxRequests
    /\ pcs' = Append(pcs, [user |-> u, classCode |-> code, pc |-> "join.findOne",
                           id |-> None, code |-> None])
    /\ UNCHANGED <<classrooms, assignments, submissions, ids, now, steps>>

\* Up to the return of Classroom.findOne, and the checks on the loaded document.
AfterJoinFind(req) ==
    LET found == FindByCode(req.classCode) IN
    IF found = {} THEN Respond(req, NOT_FOUND)
    ELSE LET k == First(found) IN
      IF req.user \in Range(classrooms[k].students) THEN Respond(req, VALIDATION_ERROR)
      ELSE IF classrooms[k].teacher = req.user THEN Respond(req, VALIDATION_ERROR)
      ELSE [req EXCEPT !.id = Some(k), !.pc = "join.save"]

JoinFindStep(n) ==
    /\ pcs[n].pc = "join.findOne"
    /\ pcs' = [pcs EXCEPT ![n] = AfterJoinFind(@)]
    /\ UNCHANGED <<classrooms, assignments, submissions, ids, now, steps>>

\* classroom.students.push(req.user.id) and classroom.save(): the push is
\* applied to the stored list.
JoinSaveStep(n) ==
    LET req == pcs[n]
        k == Val(req.id)
        ok == k \in DOMAIN classrooms
    IN /\ req.pc = "join.save"
       /\ classrooms' = IF ok
                        THEN [classrooms EXCEPT ![k] =
                                 SaveClassroom([classrooms[k] EXCEPT
                                     !.students = Append(@, req.user)])]
                        ELSE classrooms
       /\ pcs' = [pcs EXCEPT ![n] = Respond(@, IF ok THEN OK ELSE INTERNAL)]
       /\ UNCHANGED <<assignments, submissions, ids, now, steps>>

\* Two students and the teacher who join and leave two classrooms.
JoinInputs ==
    [creators |-> {"t1"}, users |-> Students \cup {"t1"},
     codes |-> {GenerateCode(ABC123), GenerateCode(XYZ789)}, max |-> MaxSetup]

NextJoin ==
    \/ \E u \in JoinInputs.creators, code \in JoinInputs.codes :
          Step(CreateClassroom(u, code), JoinInputs.max)
    \/ \E u \in JoinInputs.users, k \in ClassroomRefs :
          Step(LeaveClassroom(u, k), JoinInputs.max)
    \/ \E u \in JoinInputs.users, code \in JoinInputs.codes : ArriveJoin(u, code)
    \/ \E n \in DOMAIN pcs : JoinFindStep(n)
    \/ \E n \in DOMAIN pcs : JoinSaveStep(n)

SpecJoin == Init /\ [][NextJoin]_vars

----------------------------------------------------------------------------
\* createSubmission interleaved at its awaits while the clock advances: the
\* due-date check and the save hook each read the clock.

\* One student, an assignment due at the clock's start that takes no late
\* submissions, and a clock that passes the due date.
DueInputs ==
    [creators |-> {"t1"}, students |-> {"s1"}, codes |-> {GenerateCode(ABC123)},
     configs |-> {[dueDate |-> 0, totalPoints |-> Some(2),
                   allowLateSubmission |-> Some(FALSE),
                   lateSubmissionPenalty |-> Some(5)],
                  [dueDate |-> 3, totalPoints |-> Some(2),
                   allowLateSubmission |-> Some(FALSE),
                   lateSubmissionPenalty |-> None]},
     contents |-> {Some("c1")}, attachments |-> {None},
     statuses |-> {None, Some("submitted")}, deltas |-> {1, 3},
     max |-> MaxSetup + 1]

NextDue ==
    \/ Setup(DueInputs)
    \/ \E d \in DueInputs.deltas : Step(Tick(d), DueInputs.max)
    \/ \E u \in DueInputs.students, a \in AssignmentRefs,
          c \in DueInputs.contents, att \in DueInputs.attachments,
          st \in DueInputs.statuses : Arrive(u, Some(a), c, att, st)
    \/ \E n \in DOMAIN pcs : FindAssignmentStep(n)
    \/ \E n \in DOMAIN pcs : FindClassroomStep(n)
    \/ \E n \in DOMAIN pcs : FindOneStep(n)
    \/ \E n \in DOMAIN pcs : SaveStep(n)
    \/ \E n \in DOMAIN pcs : CreateStep(n)
    \/ \E n \in DOMAIN pcs : PushStep(n)

SpecDue == Init /\ [][NextDue]_vars

----------------------------------------------------------------------------
\* Every request a caller can send in a state: the fields range over more
\* values than the behaviours store, since a request that fails stores nothing.

AllContents == {None, Some(""), Some("c1"), Some("c2")}
AllAttachments == {None, Some(<<>>), Some(<<"f1">>)}
AllStatuses == {None, Some("")} \cup {Some(s) : s \in SubmissionStatuses \cup {"bogus"}}
AllGrades == {None} \cup {Some(g) : g \in {0 - 1, 0, 1, 2, 3, 100, 101}}
AllFeedbacks == {None, Some("fb"), Some("fb2")}

\* The stored submissions of one (assignment, student) pair in a collection.
OfPair(coll, a, u) ==
    {i \in DOMAIN coll : coll[i].assignment = a /\ coll[i].student = u}

\* The request passes createSubmission's four preconditions and names a valid status.
Accepted(u, a, status) ==
    /\ a \in DOMAIN assignments
    /\ assignments[a].status = "published"
    /\ assignments[a].classroom \in DOMAIN classrooms
    /\ u \in Range(classrooms[assignments[a].classroom].students)
    /\ (assignments[a].allowLateSubmission \/ now <= assignments[a].dueDate)
    /\ (status \in {None, Some("")} \/ Val(status) \in SubmissionStatuses)

Success == {OK, CREATED}

\* C1: handled one at a time, createSubmission never stores a second submission
\* for an (assignment, student) pair: the store holds at most one per pair, and
\* a request for a pair that has an ungraded submission is answered 200 and
\* updates that record, leaving the set of stored submissions as it was.
C1_OnePerPair ==
    /\ \A a \in AssignmentRefs, u \in Students :
          Cardinality(OfPair(submissions, a, u)) <= 1
    /\ \A u \in Students, a \in AssignmentRefs, c \in AllContents,
          att \in AllAttachments, st \in AllStatuses :
          LET r == CreateSubmissionResult(u, Some(a), c, att, st)
              mine == OfPair(submissions, a, u)
          IN /\ \A a2 \in AssignmentRefs, u2 \in Students :
                   Cardinality(OfPair(r.submissions, a2, u2)) <= 1
             /\ mine # {} => DOMAIN r.submissions = DOMAIN submissions
             /\ (mine # {} /\ Accepted(u, a, st)
                   /\ \A i \in mine : submissions[i].status \in {"draft", "submitted"})
                => /\ r.code = OK
                   /\ r.assignments = assignments
                   /\ \A i \in DOMAIN submissions \ mine :
                         r.submissions[i] = submissions[i]

\* C1 witness: two students hold one submission each for the same assignment and
\* a further createSubmission by one of them is an update.
C1_Witness ==
    \E a \in DOMAIN assignments :
        /\ \A u \in Students : Cardinality(OfPair(submissions, a, u)) = 1
        /\ \E u \in Students :
              LET r == CreateSubmissionResult(u, Some(a), Some("c2"), None, None) IN
              /\ r.code = OK
              /\ \E i \in OfPair(submissions, a, u) :
                    /\ r.submissions[i].content = Some("c2")
                    /\ submissions[i].content # Some("c2")

\* The stored submissions a student may no longer touch.
LockedIds == {i \in DOMAIN submissions : submissions[i].status \in {"graded", "returned"}}

C4_StudentNeverGrades ==
    \A u \in Students, a \in AssignmentRefs, c \in AllContents, st \in AllStatuses :
        LET r == CreateSubmissionResult(u, Some(a), c, None, st) IN
        r.code \in Success =>
            \A i \in OfPair(r.submissions, a, u) :
                r.submissions[i].status \in {"draft", "submitted"}

\* C7 as claimed: a gradeSubmission that succeeds leaves status graded, gradedBy
\* the caller, grade and feedback as requested, and gradedAt set.
C7_GradeEffect ==
    \A u \in Teachers, i \in DOMAIN submissions, g \in AllGrades, f \in AllFeedbacks :
        LET r == GradeSubmissionResult(u, i, g, f) IN
        r.code = OK =>
            /\ r.submissions[i].status = "graded"
            /\ r.submissions[i].gradedBy = Some(u)
            /\ r.submissions[i].grade = g
            /\ r.submissions[i].feedback = f
            /\ IsSet(r.submissions[i].gradedAt)

\* The teacher of a stored submission's assignment, if the assignment exists.
TeacherOf(i) ==
    IF submissions[i].assignment \in DOMAIN assignments
    THEN {assignments[submissions[i].assignment].teacher}
    ELSE {}

\* A grade the request may carry for the submission: none, or one within
\* 0..totalPoints of its assignment.
InRange(g, i) ==
    \/ g = None
    \/ /\ Val(g) >= 0
       /\ Val(g) <= assignments[submissions[i].assignment].totalPoints

\* C8, repeat grading: for a submission whose gradedAt is set, every
\* gradeSubmission by its assignment's teacher with a grade in range is
\* answered 200 and stores the requested grade and feedback and status graded,
\* with gradedAt as it was.
C8_Regrade ==
    \A i \in DOMAIN submissions, g \in AllGrades, f \in AllFeedbacks :
        \A u \in TeacherOf(i) :
            LET r == GradeSubmissionResult(u, i, g, f) IN
            (IsSet(submissions[i].gradedAt) /\ InRange(g, i)) =>
                /\ r.code = OK
                /\ r.submissions[i].grade = g
                /\ r.submissions[i].feedback = f
                /\ r.submissions[i].status = "graded"
                /\ r.submissions[i].gradedAt = submissions[i].gradedAt

\* C8, set once: no step changes a gradedAt that is set, or removes its submission.
C8_GradedAtKept ==
    \A i \in DOMAIN submissions :
        IsSet(submissions[i].gradedAt) =>
            /\ i \in DOMAIN submissions'
            /\ submissions'[i].gradedAt = submissions[i].gradedAt

\* C8: the teacher may grade a submission again and again, each time
\* overwriting grade, feedback and status, and gradedAt, once set, is never
\* changed by any later operation.
C8_GradedAtSetOnce == [](C8_Regrade) /\ [][C8_GradedAtKept]_vars

\* C8 witness: a submission graded at an earlier time than now, whose teacher's
\* further gradeSubmission stores a different grade and keeps gradedAt.
C8_Witness ==
    \E i \in DOMAIN submissions : \E u \in TeacherOf(i) :
        LET r == GradeSubmissionResult(u, i, Some(0), Some("fb2")) IN
        /\ IsSet(submissions[i].gradedAt)
        /\ Val(submissions[i].gradedAt) < now
        /\ submissions[i].grade = Some(2)
        /\ r.code = OK
        /\ r.submissions[i].grade = Some(0)
        /\ r.submissions[i].gradedAt = submissions[i].gradedAt

\* C9: gradeSubmission by the assignment's teacher with a grade below 0 or
\* above totalPoints is answered 400 and leaves every submission as it was.
C9_GradeBound ==
    \A i \in DOMAIN submissions, g \in AllGrades, f \in AllFeedbacks :
        \A u \in TeacherOf(i) :
            LET r == GradeSubmissionResult(u, i, g, f)
                tp == assignments[submissions[i].assignment].totalPoints
            IN (IsSet(g) /\ (Val(g) < 0 \/ Val(g) > tp)) =>
                   r.code = VALIDATION_ERROR /\ r.submissions = submissions

\* C9 witness: a graded submission for which totalPoints + 1 and a negative
\* grade are both refused.
C9_Witness ==
    \E i \in DOMAIN submissions : \E u \in TeacherOf(i) :
        LET tp == assignments[submissions[i].assignment].totalPoints IN
        /\ IsSet(submissions[i].grade)
        /\ GradeSubmissionResult(u, i, Some(tp + 1), None).code = VALIDATION_ERROR
        /\ GradeSubmissionResult(u, i, Some(0 - 1), None).code = VALIDATION_ERROR
        /\ GradeSubmissionResult(u, i, Some(tp), None).code = OK

\* C10 as claimed: every stored grade lies within 0..totalPoints of its assignment.
C10_GradeWithinTotal ==
    \A i \in DOMAIN submissions :
        (IsSet(submissions[i].grade) /\ submissions[i].assignment \in DOMAIN assignments)
        => /\ Val(submissions[i].grade) >= 0
           /\ Val(submissions[i].grade) <=
                  assignments[submissions[i].assignment].totalPoints

\* The four fields the first transition into submitted derives.
SubmitFields(doc) ==
    <<doc.submittedAt, doc.isLate, doc.lateByDays, doc.penaltyApplied>>

\* C5, requests: for a stored submission whose submittedAt is set, no
\* createSubmission by its student, whatever status it carries, and no
\* gradeSubmission changes submittedAt, isLate, lateByDays or penaltyApplied.
C5_NoRequestRestamps ==
    \A i \in DOMAIN submissions :
        IsSet(submissions[i].submittedAt) =>
            /\ \A c \in AllContents, st \in AllStatuses :
                  LET r == CreateSubmissionResult(submissions[i].student,
                               Some(submissions[i].assignment), c, None, st)
                  IN /\ i \in DOMAIN r.submissions
                     /\ SubmitFields(r.submissions[i]) = SubmitFields(submissions[i])
            /\ \A u \in Teachers, g \in AllGrades, f \in AllFeedbacks :
                  LET r == GradeSubmissionResult(u, i, g, f)
                  IN SubmitFields(r.submissions[i]) = SubmitFields(submissions[i])

\* C5, steps: no step changes the four fields of a submission whose
\* submittedAt is set, for as long as the submission is stored.
C5_SubmitFieldsKept ==
    \A i \in DOMAIN submissions \cap DOMAIN submissions' :
        IsSet(submissions[i].submittedAt) =>
            SubmitFields(submissions'[i]) = SubmitFields(submissions[i])

\* C5: once submittedAt is set it never changes, and isLate, lateByDays and
\* penaltyApplied keep the values of the first transition into submitted.
C5_SubmittedOnce == [](C5_NoRequestRestamps) /\ [][C5_SubmitFieldsKept]_vars

\* C5 witness: a submission submitted on time and since moved back to draft,
\* now past the due date: submitting it again succeeds and would be late.
C5_Witness ==
    \E i \in DOMAIN submissions :
        LET sub == submissions[i]
            r == CreateSubmissionResult(sub.student, Some(sub.assignment),
                                        None, None, Some("submitted"))
        IN /\ IsSet(sub.submittedAt)
           /\ sub.status = "draft"
           /\ ~sub.isLate
           /\ sub.assignment \in DOMAIN assignments
           /\ now > assignments[sub.assignment].dueDate
           /\ r.code = OK
           /\ r.submissions[i].status = "submitted"
           /\ r.submissions[i].submittedAt = sub.submittedAt

\* The number of days, counting a started day as a whole one, in a span of time.
DaysIn(span) == CHOOSE n \in 0..span : n * DayLen >= span /\ (n - 1) * DayLen < span

\* C6: a createSubmission that moves a submission into submitted for the first
\* time, at time t for an assignment due at D with penalty p, stores
\* submittedAt = t and isLate = (t > D); lateByDays is the ceiling of (t - D) in
\* days and penaltyApplied is p * lateByDays if t > D and p > 0; both are 0 if
\* t <= D, and penaltyApplied is 0 if p = 0.  A submission never submitted has
\* isLate false and lateByDays and penaltyApplied 0.
C6_LateComputation ==
    /\ \A i \in DOMAIN submissions :
          submissions[i].submittedAt = None =>
              /\ ~submissions[i].isLate
              /\ submissions[i].lateByDays = 0
              /\ submissions[i].penaltyApplied = 0
    /\ \A u \in Students, a \in DOMAIN assignments, c \in AllContents, st \in AllStatuses :
          LET r == CreateSubmissionResult(u, Some(a), c, None, st)
              D == assignments[a].dueDate
              p == assignments[a].lateSubmissionPenalty
              t == now
          IN \A i \in OfPair(r.submissions, a, u) :
                (/\ r.code \in Success
                 /\ r.submissions[i].status = "submitted"
                 /\ (i \in DOMAIN submissions => submissions[i].submittedAt = None))
                => /\ r.submissions[i].submittedAt = Some(t)
                   /\ r.submissions[i].isLate = (t > D)
                   /\ t > D => /\ r.submissions[i].lateByDays = DaysIn(t - D)
                               /\ p > 0 => r.submissions[i].penaltyApplied =
                                               p * DaysIn(t - D)
                               /\ p = 0 => r.submissions[i].penaltyApplied = 0
                   /\ t <= D => /\ r.submissions[i].lateByDays = 0
                                /\ r.submissions[i].penaltyApplied = 0

\* C6 witness: a submission stored as submitted exactly three days after the
\* due date of an assignment with penalty 5: late by 3 days, penalty 15.
C6_Witness ==
    \E i \in DOMAIN submissions :
        LET sub == submissions[i] IN
        /\ sub.assignment \in DOMAIN assignments
        /\ assignments[sub.assignment].lateSubmissionPenalty = 5
        /\ sub.submittedAt = Some(assignments[sub.assignment].dueDate + 3 * DayLen)
        /\ sub.isLate
        /\ sub.lateByDays = 3
        /\ sub.penaltyApplied = 15

\* The requests in flight or answered that are for the same pair as request n.
SamePair(n, m) ==
    /\ pcs[n].user = pcs[m].user
    /\ pcs[n].assignment = pcs[m].assignment

\* Has the request inserted a submission?
Inserted(req) == req.missed /\ IsSet(req.submission)

\* C2: however createSubmission requests for the same (assignment, student)
\* interleave, at most one submission for the pair is stored.  Of the requests
\* whose lookups found nothing at most one inserts; it is answered 201, and
\* every other one is answered the 500 of an insert that the unique index
\* refused because the pair's submission was already stored.
C2_OnePerPairConcurrent ==
    /\ \A a \in AssignmentRefs, u \in Students :
          Cardinality(OfPair(submissions, a, u)) <= 1
    /\ \A n, m \in DOMAIN pcs :
          (n # m /\ SamePair(n, m)) => ~(Inserted(pcs[n]) /\ Inserted(pcs[m]))
    /\ \A n \in DOMAIN pcs :
          (pcs[n].missed /\ pcs[n].pc = "done") =>
              LET stored == OfPair(submissions, Val(pcs[n].assignment), pcs[n].user)
              IN IF Inserted(pcs[n])
                 THEN /\ pcs[n].code = Some(CREATED)
                      /\ stored = {Val(pcs[n].submission).id}
                 ELSE /\ pcs[n].code = Some(INTERNAL)
                      /\ stored # {}
                      /\ \E m \in DOMAIN pcs :
                            /\ m # n
                            /\ SamePair(n, m)
                            /\ Inserted(pcs[m])

\* C2 witness: two answered requests for the same pair whose lookups both
\* found nothing: one submission is stored and the second insert was refused.
C2_Witness ==
    \E n, m \in DOMAIN pcs :
        /\ n < m
        /\ SamePair(n, m)
        /\ pcs[n].missed /\ pcs[m].missed
        /\ pcs[n].code = Some(CREATED)
        /\ pcs[m].code = Some(INTERNAL)
        /\ Cardinality(OfPair(submissions, Val(pcs[n].assignment), pcs[n].user)) = 1

\* The answers that report a business-rule failure.
Refusals == {NOT_FOUND, FORBIDDEN, VALIDATION_ERROR}

\* Is the student enrolled in the classroom of the stored assignment?
EnrolledIn(u, a) ==
    /\ assignments[a].classroom \in DOMAIN classrooms
    /\ u \in Range(classrooms[assignments[a].classroom].students)

\* C11 as claimed: createSubmission answers by the first precondition that
\* fails: assignment missing 404, else not published 400, else student not
\* enrolled in the assignment's classroom 403, else past due with late
\* submissions off 400.
C11_PreconditionOrder ==
    \A u \in Students, a \in AssignmentRefs, c \in AllContents, st \in AllStatuses :
        LET r == CreateSubmissionResult(u, Some(a), c, None, st) IN
        IF a \notin DOMAIN assignments THEN r.code = NOT_FOUND
        ELSE IF assignments[a].status # "published" THEN r.code = VALIDATION_ERROR
        ELSE IF ~EnrolledIn(u, a) THEN r.code = FORBIDDEN
        ELSE (~assignments[a].allowLateSubmission /\ now > assignments[a].dueDate)
                 => r.code = VALIDATION_ERROR

\* Is the user the teacher of the stored submission's assignment?
GradesFor(u, i) ==
    /\ submissions[i].assignment \in DOMAIN assignments
    /\ assignments[submissions[i].assignment].teacher = u

\* C12 as claimed: gradeSubmission, deleteSubmission, getAssignmentSubmissions
\* and getStudentSubmissions answer 404 for a missing entity and 403 for an
\* existing one whose caller is not authorized for it.
C12_ExistenceFirst ==
    /\ \A u \in Users, i \in SubmissionRefs, g \in AllGrades, f \in AllFeedbacks :
          LET r == GradeSubmissionResult(u, i, g, f) IN
          IF i \notin DOMAIN submissions THEN r.code = NOT_FOUND
          ELSE ~GradesFor(u, i) => r.code = FORBIDDEN
    /\ \A u \in Users, i \in SubmissionRefs :
          LET r == DeleteSubmissionResult(u, i) IN
          IF i \notin DOMAIN submissions THEN r.code = NOT_FOUND
          ELSE submissions[i].student # u => r.code = FORBIDDEN
    /\ \A u \in Users, a \in AssignmentRefs :
          LET r == GetAssignmentSubmissionsResult(u, a) IN
          IF a \notin DOMAIN assignments THEN r.code = NOT_FOUND
          ELSE assignments[a].teacher # u => r.code = FORBIDDEN
    /\ \A u \in Users, k \in ClassroomRefs, sid \in Users :
          LET r == GetStudentSubmissionsResult(u, k, sid) IN
          IF k \notin DOMAIN classrooms THEN r.code = NOT_FOUND
          ELSE (classrooms[k].teacher # u /\ sid # u) => r.code = FORBIDDEN

\* C13: deleteSubmission answers 404 for a missing submission, else 403 for a
\* caller who is not the submission's student, else 400 for a graded or
\* returned submission, and succeeds in every other case and in no other.
C13_DeleteOrder ==
    \A u \in Users, i \in SubmissionRefs :
        LET r == DeleteSubmissionResult(u, i) IN
        IF i \notin DOMAIN submissions THEN r.code = NOT_FOUND
        ELSE IF submissions[i].student # u THEN r.code = FORBIDDEN
        ELSE IF submissions[i].status \in {"graded", "returned"}
        THEN r.code = VALIDATION_ERROR
        ELSE r.code = OK /\ submissions[i].status \in {"draft", "submitted"}

\* C13 witness: a submission graded by the teacher, whose deletion is refused
\* with 403 to the teacher and to another student and with 400 to its student.
C13_Witness ==
    \E i \in DOMAIN submissions :
        /\ submissions[i].status = "graded"
        /\ IsSet(submissions[i].gradedBy)
        /\ DeleteSubmissionResult(Val(submissions[i].gradedBy), i).code = FORBIDDEN
        /\ \E u \in Students \ {submissions[i].student} :
              DeleteSubmissionResult(u, i).code = FORBIDDEN
        /\ DeleteSubmissionResult(submissions[i].student, i).code = VALIDATION_ERROR

\* C14: a deleteSubmission that succeeds removes the submission and removes
\* its id from its assignment's list: afterwards no submission of the pair is
\* stored, and every other submission, every other field of the assignment and
\* every other assignment are as before.
C14_DeleteEffect ==
    \A u \in Users, i \in DOMAIN submissions :
        LET r == DeleteSubmissionResult(u, i)
            a == submissions[i].assignment
        IN r.code = OK =>
            /\ DOMAIN r.submissions = DOMAIN submissions \ {i}
            /\ \A j \in DOMAIN r.submissions : r.submissions[j] = submissions[j]
            /\ OfPair(r.submissions, a, submissions[i].student) = {}
            /\ DOMAIN r.assignments = DOMAIN assignments
            /\ \A b \in DOMAIN assignments :
                  IF b = a
                  THEN /\ i \notin Range(r.assignments[b].submissions)
                       /\ r.assignments[b].submissions =
                              SelectSeq(assignments[b].submissions, LAMBDA x : x # i)
                       /\ [r.assignments[b] EXCEPT !.submissions = <<>>] =
                              [assignments[b] EXCEPT !.submissions = <<>>]
                  ELSE r.assignments[b] = assignments[b]

\* C14 witness: two submissions listed by one assignment, one of which its
\* student can delete, leaving the other one listed.
C14_Witness ==
    \E i, j \in DOMAIN submissions :
        LET a == submissions[i].assignment
            r == DeleteSubmissionResult(submissions[i].student, i)
        IN /\ i # j
           /\ a \in DOMAIN assignments
           /\ submissions[j].assignment = a
           /\ i \in Range(assignments[a].submissions)
           /\ j \in Range(assignments[a].submissions)
           /\ r.code = OK
           /\ Range(r.assignments[a].submissions) = Range(assignments[a].submissions) \ {i}

\* C15: a createSubmission, gradeSubmission or deleteSubmission that is
\* answered 404, 403 or 400 leaves every collection it writes to (submissions,
\* assignments with their submissions lists, and the ids given out) as it was.
C15_NoPartialMutation ==
    /\ \A u \in Users, a \in AssignmentRefs, c \in AllContents, st \in AllStatuses :
          LET r == CreateSubmissionResult(u, Some(a), c, None, st) IN
          r.code \in Refusals =>
              /\ r.submissions = submissions
              /\ r.assignments = assignments
              /\ r.ids = ids
    /\ \A u \in Users, i \in SubmissionRefs, g \in AllGrades, f \in AllFeedbacks :
          LET r == GradeSubmissionResult(u, i, g, f) IN
          r.code \in Refusals => r.submissions = submissions
    /\ \A u \in Users, i \in SubmissionRefs :
          LET r == DeleteSubmissionResult(u, i) IN
          r.code \in Refusals =>
              /\ r.submissions = submissions
              /\ r.assignments = assignments

\* C15 witness: a graded submission for which an update by its student, a
\* grade above totalPoints by the teacher and a deletion by its student are
\* each answered 400.
C15_Witness ==
    \E i \in DOMAIN submissions :
        LET sub == submissions[i] IN
        /\ IsSet(sub.gradedBy)
        /\ sub.grade = Some(0)
        /\ CreateSubmissionResult(sub.student, Some(sub.assignment), Some("c2"),
                                  None, Some("draft")).code = VALIDATION_ERROR
        /\ GradeSubmissionResult(Val(sub.gradedBy), i, Some(101), Some("fb")).code
               = VALIDATION_ERROR
        /\ DeleteSubmissionResult(sub.student, i).code = VALIDATION_ERROR

\* C16 as claimed: a createSubmission for an unknown assignment or by a
\* student who is not enrolled, a gradeSubmission for an unknown submission or
\* by a caller who is not the assignment's teacher, and every deleteSubmission
\* is never answered 500.
C16_NoInternalError ==
    /\ \A u \in Students, a \in AssignmentRefs, c \in AllContents,
          st \in {None, Some("draft"), Some("submitted")} :
          (a \notin DOMAIN assignments \/ ~EnrolledIn(u, a)) =>
              CreateSubmissionResult(u, Some(a), c, None, st).code \in Refusals
    /\ \A u \in Users, i \in SubmissionRefs, f \in AllFeedbacks :
          (i \notin DOMAIN submissions \/ ~GradesFor(u, i)) =>
              GradeSubmissionResult(u, i, Some(0), f).code \in Refusals
    /\ \A u \in Users, i \in SubmissionRefs :
          DeleteSubmissionResult(u, i).code # INTERNAL

\* C17: getMySubmission returns only the caller's submission for the
\* assignment; getStudentSubmissions returns submissions only to the
\* classroom's teacher or to the student asked for, and then exactly those of
\* (classroomId, studentId); getAssignmentSubmissions returns submissions only
\* to the assignment's teacher, and then exactly the assignment's.  Every
\* other caller of the last two gets no submission, with 403 if the classroom
\* or assignment exists and 404 if it does not.
C17_NoLeak ==
    /\ \A u \in Users, a \in AssignmentRefs :
          \A i \in GetMySubmissionResult(u, a).submissions :
              /\ submissions[i].student = u
              /\ submissions[i].assignment = a
    /\ \A u \in Users, k \in ClassroomRefs, sid \in Users :
          LET r == GetStudentSubmissionsResult(u, k, sid)
              allowed == k \in DOMAIN classrooms
                         /\ (classrooms[k].teacher = u \/ sid = u)
          IN IF allowed
             THEN /\ r.code = OK
                  /\ r.submissions = {i \in DOMAIN submissions :
                         submissions[i].classroom = k /\ submissions[i].student = sid}
             ELSE /\ r.submissions = {}
                  /\ r.code = IF k \in DOMAIN classrooms THEN FORBIDDEN ELSE NOT_FOUND
    /\ \A u \in Users, a \in AssignmentRefs :
          LET r == GetAssignmentSubmissionsResult(u, a)
              allowed == a \in DOMAIN assignments /\ assignments[a].teacher = u
          IN IF allowed
             THEN /\ r.code = OK
                  /\ r.submissions = {i \in DOMAIN submissions :
                         submissions[i].assignment = a}
             ELSE /\ r.submissions = {}
                  /\ r.code = IF a \in DOMAIN assignments THEN FORBIDDEN ELSE NOT_FOUND

\* C17 witness: two students with a submission each in one classroom: each is
\* refused the other's submissions and gets its own, and the teacher gets both.
C17_Witness ==
    \E i, j \in DOMAIN submissions :
        LET k == submissions[i].classroom
            me == submissions[i].student
            other == submissions[j].student
        IN /\ me # other
           /\ submissions[j].classroom = k
           /\ k \in DOMAIN classrooms
           /\ GetStudentSubmissionsResult(me, k, other).code = FORBIDDEN
           /\ GetStudentSubmissionsResult(me, k, me).submissions = {i}
           /\ GetStudentSubmissionsResult(classrooms[k].teacher, k, other).submissions = {j}
           /\ GetMySubmissionResult(me, submissions[i].assignment).submissions = {i}
           /\ GetAssignmentSubmissionsResult(me, submissions[i].assignment).code = FORBIDDEN
           /\ {i, j} \subseteq GetAssignmentSubmissionsResult(classrooms[k].teacher,
                                   submissions[i].assignment).submissions

\* C18 as claimed: no step changes a publishedAt that is set, for as long as
\* the assignment is stored.
C18_PublishedAtSetOnce ==
    [][\A a \in DOMAIN assignments \cap DOMAIN assignments' :
          IsSet(assignments[a].publishedAt) =>
              assignments'[a].publishedAt = assignments[a].publishedAt]_vars

\* The place of a status on the path draft -> published -> closed.
StatusRank(status) ==
    CASE status = "draft" -> 0
      [] status = "published" -> 1
      [] status = "closed" -> 2

\* C19 as claimed: no step moves a stored assignment's status backwards on
\* the path draft -> published -> closed.
C19_StatusForward ==
    [][\A a \in DOMAIN assignments \cap DOMAIN assignments' :
          StatusRank(assignments'[a].status) >= StatusRank(assignments[a].status)]_vars

\* The answered createClassroom requests of teachers.
AnsweredCreations ==
    {n \in DOMAIN pcs : pcs[n].pc = "done" /\ pcs[n].user \in Teachers}

\* C20 as claimed: however classroom creations interleave, no two stored
\* classrooms share a join code, every stored code is 6 characters of A-Z and
\* 0-9, and the N creations answered so far have stored N classrooms.
C20_DistinctCodes ==
    /\ \A k1, k2 \in DOMAIN classrooms :
          k1 # k2 => classrooms[k1].classCode # classrooms[k2].classCode
    /\ \A k \in DOMAIN classrooms :
          /\ Len(classrooms[k].classCode) = 6
          /\ \A i \in 1..6 : classrooms[k].classCode[i] \in Range(Chars)
    /\ Cardinality(DOMAIN classrooms) = Cardinality(AnsweredCreations)

\* The number of times the user is listed among the classroom's students.
Listed(coll, k, u) ==
    Cardinality({n \in DOMAIN coll[k].students : coll[k].students[n] = u})

\* C21: with joinClassroom and leaveClassroom handled one at a time, every
\* classroom lists each student at most once; joinClassroom by a user who is
\* already enrolled is answered 400 and changes nothing, and joinClassroom by
\* the classroom's teacher is answered 400.
C21_StudentsUnique ==
    /\ \A k \in DOMAIN classrooms, u \in Users : Listed(classrooms, k, u) <= 1
    /\ \A k \in DOMAIN classrooms, u \in Users :
          LET r == JoinClassroomResult(u, classrooms[k].classCode) IN
          /\ \A k2 \in DOMAIN classrooms, u2 \in Users : Listed(r.classrooms, k2, u2) <= 1
          /\ Listed(classrooms, k, u) > 0 =>
                 r.code = VALIDATION_ERROR /\ r.classrooms = classrooms
          /\ classrooms[k].teacher = u =>
                 r.code = VALIDATION_ERROR /\ r.classrooms = classrooms

\* C21 witness: a classroom with two students enrolled, in which a further
\* join by either of them and a join by its teacher are answered 400.
C21_Witness ==
    \E k \in DOMAIN classrooms :
        /\ \A u \in Students :
              /\ Listed(classrooms, k, u) = 1
              /\ JoinClassroomResult(u, classrooms[k].classCode).code = VALIDATION_ERROR
        /\ JoinClassroomResult(classrooms[k].teacher, classrooms[k].classCode).code
               = VALIDATION_ERROR

\* The serialised documents.
Serialised == {pcs[n] : n \in {m \in DOMAIN pcs : pcs[m].pc = "done"}}

\* The grade less the penalty, floored at zero.
Floored(doc) ==
    IF Val(doc.grade) > doc.penaltyApplied
    THEN Val(doc.grade) - doc.penaltyApplied
    ELSE 0

\* C22 as claimed: finalGrade is null for an unset grade and otherwise equals
\* max(0, grade - penaltyApplied), never negative, never above grade, and
\* equal to grade when the penalty is 0; gradePercentage is the rounded
\* finalGrade / totalPoints * 100 of the populated assignment.
C22_FinalGradeExact ==
    \A r \in Serialised :
        IF r.doc.grade = None THEN r.finalGrade = None
        ELSE /\ r.finalGrade = Some(Floored(r.doc))
             /\ Val(r.finalGrade) >= 0
             /\ Val(r.finalGrade) <= Val(r.doc.grade)
             /\ r.doc.penaltyApplied = 0 => r.finalGrade = r.doc.grade
             /\ r.assignment # None =>
                   /\ r.gradePercentage # None
                   /\ \E q \in {Val(r.gradePercentage)} :
                         LET tp == Val(r.assignment).totalPoints
                             x == Val(r.finalGrade) * 100
                         IN 2 * (x - q * tp) < tp /\ 2 * (q * tp - x) <= tp

\* C22 as amended: finalGrade is null for an unset grade and otherwise is
\* max(0, grade - penaltyApplied) rounded to hundredths of a point, halves
\* upwards: never negative, within half a hundredth of the floored difference,
\* and equal to it (so at most grade, and equal to grade when the penalty is
\* 0) whenever the difference has at most two decimals.  gradePercentage is
\* null when finalGrade is null, when the assignment is not populated or when
\* its totalPoints is 0, and otherwise finalGrade / totalPoints * 100 rounded
\* to the nearest integer, halves upwards.
C22_FinalGradeRounded ==
    \A r \in Serialised :
        IF r.doc.grade = None
        THEN r.finalGrade = None /\ r.gradePercentage = None
        ELSE LET m == Floored(r.doc)
                 fg == Val(r.finalGrade)
                 hundredth == PerPoint \div 100
             IN /\ r.finalGrade # None
                /\ fg >= 0
                /\ fg % hundredth = 0
                /\ 2 * (m - fg) < hundredth
                /\ 2 * (fg - m) <= hundredth
                /\ m % hundredth = 0 =>
                      /\ fg = m
                      /\ fg <= Val(r.doc.grade)
                      /\ r.doc.penaltyApplied = 0 => fg = Val(r.doc.grade)
                /\ IF r.assignment = None \/ Val(r.assignment).totalPoints = 0
                   THEN r.gradePercentage = None
                   ELSE /\ r.gradePercentage # None
                        /\ LET q == Val(r.gradePercentage)
                               tp == Val(r.assignment).totalPoints
                           IN /\ 2 * (fg * 100 - q * tp) < tp
                              /\ 2 * (q * tp - fg * 100) <= tp

\* C22 witness: grade 80, penalty 15 and totalPoints 100 serialise to
\* finalGrade 65 and gradePercentage 65.
C22_Witness ==
    \E r \in Serialised :
        /\ r.doc.grade = Some(80 * PerPoint)
        /\ r.doc.penaltyApplied = 15 * PerPoint
        /\ r.assignment = Some([totalPoints |-> 100 * PerPoint])
        /\ r.finalGrade = Some(65 * PerPoint)
        /\ r.gradePercentage = Some(65)

\* The caller's requests that have been repeated, the latest one only: the
\* stored state is then the one the repetition left.
Repeated == {n \in DOMAIN pcs : n = Len(pcs) /\ pcs[n].pc = "retried"}

FrameFields == {"assignment", "student", "classroom", "grade", "feedback",
                "gradedBy", "gradedAt"}

\* C24 as claimed: on the update path of createSubmission (the pair's
\* submission exists and is draft or submitted), content, attachments and
\* status each take the request's value when the request provides one, an
\* empty content string or an empty attachments list included, and keep the
\* stored value when the request omits it; the assignment, student,
\* classroom and grading fields stay as stored.
C24_MergeProvided ==
    \A i \in DOMAIN submissions :
        \A c \in AllContents, att \in AllAttachments,
           st \in {None, Some("draft"), Some("submitted")} :
            LET old == submissions[i]
                r == CreateSubmissionResult(old.student, Some(old.assignment), c, att, st)
            IN (r.code = OK /\ old.status \in {"draft", "submitted"}) =>
                  LET new == r.submissions[i] IN
                  /\ new.content = IF c # None THEN c ELSE old.content
                  /\ new.attachments = IF att # None THEN Val(att) ELSE old.attachments
                  /\ new.status = IF st # None THEN Val(st) ELSE old.status
                  /\ \A f \in FrameFields : new[f] = old[f]
                  /\ DOMAIN r.submissions = DOMAIN submissions
                  /\ \A j \in DOMAIN submissions \ {i} : r.submissions[j] = submissions[j]

\* The late fields as the schema defaults them.
LateDefaults(doc) == ~doc.isLate /\ doc.lateByDays = 0 /\ doc.penaltyApplied = 0

\* A step stamps submittedAt, on a new record or on a stored one, only
\* on a record whose status it leaves submitted, and with the current time.
StampedOnSubmit ==
    \A i \in DOMAIN submissions' :
        LET new == submissions'[i] IN
        (new.submittedAt # None /\
            (i \notin DOMAIN submissions \/ submissions[i].submittedAt = None)) =>
                new.status = "submitted" /\ new.submittedAt = Some(now)

\* C25: a stored submission with status submitted always has submittedAt set,
\* whether it became submitted on create or on update; submittedAt is stamped
\* only by a step that leaves the record submitted, and while it is unset the
\* late fields keep their defaults, so a submission that was never submitted
\* has submittedAt unset, isLate false, lateByDays 0 and penaltyApplied 0.
C25_SubmitStamp ==
    /\ [](\A i \in DOMAIN submissions :
            /\ submissions[i].status = "submitted" => submissions[i].submittedAt # None
            /\ submissions[i].submittedAt = None => LateDefaults(submissions[i]))
    /\ [][StampedOnSubmit]_vars

\* C25 witness: a submission that became submitted after the due date, with
\* submittedAt stamped after the clock's start and the late fields set.
C25_Witness ==
    \E i \in DOMAIN submissions :
        /\ submissions[i].status = "submitted"
        /\ submissions[i].submittedAt = Some(now) /\ now > 0
        /\ submissions[i].isLate /\ submissions[i].penaltyApplied > 0

\* A step that removes an assignment removes its id from every classroom's
\* list and changes nothing else; a step that removes a classroom changes
\* nothing else.
RemovalsDoNotCascade ==
    /\ \A aid \in DOMAIN assignments \ DOMAIN assignments' :
          /\ \A k \in DOMAIN classrooms' :
                /\ aid \notin Range(classrooms'[k].assignments)
                /\ classrooms'[k] =
                      [classrooms[k] EXCEPT !.assignments = Remove(@, aid)]
          /\ DOMAIN classrooms' = DOMAIN classrooms
          /\ \A a \in DOMAIN assignments' : assignments'[a] = assignments[a]
          /\ submissions' = submissions
    /\ \A k \in DOMAIN classrooms \ DOMAIN classrooms' :
          /\ \A k2 \in DOMAIN classrooms' : classrooms'[k2] = classrooms[k2]
          /\ assignments' = assignments
          /\ submissions' = submissions

\* C26: a successful deleteAssignment removes the assignment and its id from
\* the classroom's assignments list, a successful deleteClassroom removes the
\* classroom, and the step of either leaves every other classroom and
\* assignment and every submission, those of the removed document included,
\* stored and unchanged.
C26_NoCascade ==
    /\ [](/\ \A u \in Users, aid \in AssignmentRefs :
               LET r == DeleteAssignmentResult(u, aid) IN
               r.code = OK =>
                   /\ aid \in DOMAIN assignments /\ aid \notin DOMAIN r.assignments
                   /\ \A k \in DOMAIN r.classrooms :
                         aid \notin Range(r.classrooms[k].assignments)
          /\ \A u \in Users, k \in ClassroomRefs :
               LET r == DeleteClassroomResult(u, k) IN
               r.code = OK => k \in DOMAIN classrooms /\ k \notin DOMAIN r.classrooms)
    /\ [][RemovalsDoNotCascade]_vars

\* C26 witness: a stored submission whose assignment and whose classroom
\* have both been deleted.
C26_Witness ==
    \E i \in DOMAIN submissions :
        /\ submissions[i].assignment \in 1..ids.assignment
        /\ submissions[i].assignment \notin DOMAIN assignments
        /\ submissions[i].classroom \in 1..ids.classroom
        /\ submissions[i].classroom \notin DOMAIN classrooms

\* C27 as claimed: under every interleaving of the student's update or delete
\* with the teacher's grading, once a stored submission is graded no step
\* removes it or changes its content, attachments or status.
C27_LockUnderInterleaving ==
    [][\A i \in DOMAIN submissions :
          Locked(submissions[i]) =>
              /\ i \in DOMAIN submissions'
              /\ submissions'[i].content = submissions[i].content
              /\ submissions'[i].attachments = submissions[i].attachments
              /\ submissions'[i].status = submissions[i].status]_vars

\* The ids of the stored submissions of an assignment.
StoredFor(a) == {i \in DOMAIN submissions : submissions[i].assignment = a}

\* Every request that has arrived has been answered.
Quiescent == \A n \in DOMAIN pcs : pcs[n].pc = "done"

\* C28 as claimed: whenever no request is in progress, every stored
\* assignment's submissions list holds exactly the ids of the stored
\* submissions of that assignment, each once.
C28_ListMatchesStore ==
    Quiescent =>
        \A a \in DOMAIN assignments :
            LET list == assignments[a].submissions IN
            /\ Range(list) = StoredFor(a)
            /\ Cardinality(Range(list)) = Len(list)

\* C29 as claimed: under every interleaving of joinClassroom calls, a
\* classroom's students list contains a student at most once.
C29_JoinOnceConcurrent ==
    \A k \in DOMAIN classrooms, u \in Users :
        Cardinality({n \in DOMAIN classrooms[k].students :
                         classrooms[k].students[n] = u}) <= 1

\* The requests whose save hook is in its generate-and-look-up loop.
InLoop(n) == n \in DOMAIN pcs /\ pcs[n].pc = "findOne"

\* A step in which a request leaves the loop keeps a code that no stored
\* classroom held when the step looked it up.
LeavesLoopWithFreeCode ==
    \A n \in DOMAIN pcs :
        (pcs[n].pc = "findOne" /\ pcs'[n].pc # "findOne") =>
            /\ pcs'[n].pc = "insert"
            /\ pcs'[n].classCode # None
            /\ Val(pcs'[n].classCode) \notin CodesInUse

\* C30: with a fair random choice, a creation that is in the join-code loop
\* eventually leaves it, unless every code has come into use; the code it
\* leaves with was held by no stored classroom at its last lookup; and a
\* round that draws a taken code leaves the request in the loop as it was,
\* whatever the number of rounds before it (no retry cap).
C30_LoopTerminates ==
    /\ \A n \in 1..MaxRequests :
          InLoop(n) ~> (~InLoop(n) \/ CodeInputs.codes \subseteq CodesInUse)
    /\ [][LeavesLoopWithFreeCode]_vars
    /\ [](\A n \in DOMAIN pcs, candidate \in CodeInputs.codes :
             (pcs[n].pc = "findOne" /\ candidate \in CodesInUse) =>
                 AfterFindCode(pcs[n], candidate) = pcs[n])

\* C30 witness: a creation has left the loop with a free code while another
\* classroom holds a different code that the loop could have drawn.
C30_Witness ==
    \E n \in DOMAIN pcs :
        /\ pcs[n].pc = "insert"
        /\ Val(pcs[n].classCode) \notin CodesInUse
        /\ CodesInUse # {}
        /\ CodesInUse \subseteq CodeInputs.codes

\* C31 as claimed: a stored submission of an assignment that takes no late
\* submissions never has isLate set, lateByDays > 0 or penaltyApplied > 0,
\* also when the clock passes the due date between the handler's due-date
\* check and the save hook's stamp.
C31_NeverLateWhenClosed ==
    \A i \in DOMAIN submissions :
        LET doc == submissions[i] IN
        (doc.assignment \in DOMAIN assignments
            /\ ~assignments[doc.assignment].allowLateSubmission) =>
                ~doc.isLate /\ doc.lateByDays = 0 /\ doc.penaltyApplied = 0

\* The assignment is stored and published, its classroom is stored and lists
\* the user among its students.
PublishedAndEnrolled(u, a) ==
    /\ a \in DOMAIN assignments
    /\ assignments[a].status = "published"
    /\ assignments[a].classroom \in DOMAIN classrooms
    /\ u \in Range(classrooms[assignments[a].classroom].students)

\* A step that stores a new submission does so for an assignment that is
\* published and a student who is enrolled in its classroom as the step
\* starts, and stamps the submission with that classroom.
CreatedWhilePublishedAndEnrolled ==
    \A i \in DOMAIN submissions' \ DOMAIN submissions :
        LET doc == submissions'[i] IN
        /\ PublishedAndEnrolled(doc.student, doc.assignment)
        /\ doc.classroom = assignments[doc.assignment].classroom

\* C32: with requests handled one at a time, a submission is stored only by
\* a createSubmission call made while its assignment is published and its
\* student is enrolled in the assignment's classroom, and its classroom field
\* is the assignment's classroom at that time; so an assignment that was
\* never published and a student who was never enrolled have no submission.
C32_CreatedWhenAllowed ==
    /\ [](\A u \in Users, a \in AssignmentRefs, st \in AllStatuses :
             LET r == CreateSubmissionResult(u, Some(a), Some("c1"), None, st) IN
             /\ r.code = CREATED => PublishedAndEnrolled(u, a)
             /\ ~PublishedAndEnrolled(u, a) =>
                    r.code \notin Success /\ r.submissions = submissions
             /\ \A i \in DOMAIN r.submissions \ DOMAIN submissions :
                    /\ r.submissions[i].student = u
                    /\ r.submissions[i].assignment = a
                    /\ r.submissions[i].classroom = assignments[a].classroom)
    /\ [][CreatedWhilePublishedAndEnrolled]_vars

\* C32 witness: a stored submission whose assignment has since gone back to
\* draft and whose student has since left the classroom.
C32_Witness ==
    \E i \in DOMAIN submissions :
        LET doc == submissions[i] IN
        /\ doc.assignment \in DOMAIN assignments
        /\ assignments[doc.assignment].status = "draft"
        /\ doc.classroom = assignments[doc.assignment].classroom
        /\ doc.classroom \in DOMAIN classrooms
        /\ doc.student \notin Range(classrooms[doc.classroom].students)

\* The grading fields of a submission.
GradingOf(doc) == <<doc.grade, doc.gradedBy, doc.gradedAt>>

\* A new submission is stored ungraded, and a step that changes the grading
\* fields of a stored submission leaves it graded by the teacher its
\* assignment has as the step starts.
GradedOnlyByTeacher ==
    \A i \in DOMAIN submissions' :
        LET new == submissions'[i] IN
        IF i \notin DOMAIN submissions
        THEN GradingOf(new) = <<None, None, None>>
        ELSE GradingOf(new) # GradingOf(submissions[i]) =>
                /\ new.assignment \in DOMAIN assignments
                /\ new.gradedBy = Some(assignments[new.assignment].teacher)
                /\ new.status = "graded"

\* C33: with requests handled one at a time, every stored submission with
\* gradedAt set has status graded and gradedBy set; gradeSubmission succeeds
\* only for the teacher of the submission's assignment and leaves gradedBy
\* that teacher; and grade, gradedBy and gradedAt are unset on a new
\* submission and change only in such a grading step, so a submission that no
\* teacher has graded has all three unset.
C33_GradedByTeacher ==
    /\ [](\A i \in DOMAIN submissions :
             submissions[i].gradedAt # None =>
                 /\ submissions[i].status = "graded"
                 /\ submissions[i].gradedBy # None
                 /\ Val(submissions[i].gradedBy) \in Teachers)
    /\ [](\A u \in Users, i \in DOMAIN submissions, g \in {None, Some(0), Some(1)} :
             LET r == GradeSubmissionResult(u, i, g, None) IN
             r.code = OK =>
                 /\ assignments[submissions[i].assignment].teacher = u
                 /\ r.submissions[i].gradedBy = Some(u)
                 /\ r.submissions[i].status = "graded")
    /\ [][GradedOnlyByTeacher]_vars

\* C33 witness: a submission graded by its assignment's teacher, with
\* gradedAt set, next to the request of a student to grade it, which is refused.
C33_Witness ==
    \E i \in DOMAIN submissions :
        LET doc == submissions[i] IN
        /\ doc.gradedAt # None /\ doc.grade # None /\ doc.status = "graded"
        /\ doc.assignment \in DOMAIN assignments
        /\ doc.gradedBy = Some(assignments[doc.assignment].teacher)
        /\ GradeSubmissionResult(doc.student, i, Some(1), None).code = FORBIDDEN

\* The stored classrooms of a collection keep the join codes they have.
CodesKept(coll) ==
    \A k \in DOMAIN classrooms \cap DOMAIN coll :
        coll[k].classCode = classrooms[k].classCode

\* C34: the save hook leaves the join code of a classroom that is not new,
\* whatever code the generator would draw; joinClassroom, leaveClassroom and
\* createAssignment, which save a stored classroom again, leave every stored
\* classroom's classCode as it is; and no step changes the classCode of a
\* classroom that stays stored.
C34_CodeKept ==
    /\ [](\A k \in DOMAIN classrooms, code \in CodeInputs.codes :
             ClassroomPreSave(classrooms[k], FALSE, code).classCode
                 = classrooms[k].classCode)
    /\ [](\A u \in Users, k \in DOMAIN classrooms :
             /\ CodesKept(JoinClassroomResult(u, classrooms[k].classCode).classrooms)
             /\ CodesKept(LeaveClassroomResult(u, k).classrooms)
             /\ CodesKept(CreateAssignmentResult(u, k, 0, None, None, None).classrooms))
    /\ [][\A k \in DOMAIN classrooms \cap DOMAIN classrooms' :
             classrooms'[k].classCode = classrooms[k].classCode]_vars

\* C34 witness: a classroom that still has the code it was created with
\* after a student joined and an assignment was added, and that the student
\* can leave.
C34_Witness ==
    \E k \in DOMAIN classrooms :
        /\ classrooms[k].classCode = GenerateCode(ABC123)
        /\ classrooms[k].assignments # <<>>
        /\ classrooms[k].students # <<>>
        /\ LeaveClassroomResult(classrooms[k].students[1], k).code = OK
        /\ CodesKept(LeaveClassroomResult(classrooms[k].students[1], k).classrooms)

====
